---- MODULE Spec2Model ----
(***************************************************************************)
(* Model of the agentsec runtime interception layer of the AI Defense      *)
(* Python SDK: the Bedrock and MCP patchers, the API-mode LLM and MCP      *)
(* inspectors, and the call-scoped inspection context they share.          *)
(*                                                                         *)
(* Python values are encoded as follows.                                   *)
(*   - a dict is a function from keys (strings) to values; d.get(k, x) is  *)
(*     dict_get(d, k, x);                                                  *)
(*   - a str that the code transforms or compares character-wise (the      *)
(*     "action" of an inspection response) is a sequence of one-character  *)
(*     strings, so that str.lower() is computed, not assumed;              *)
(*   - an Optional[T] is <<>> (None) or <<x>>;                             *)
(*   - a JSON scalar whose truthiness the code tests is one of "true",     *)
(*     "false", "null".                                                    *)
(***************************************************************************)
EXTENDS Integers, Sequences, FiniteSets, TLC

VARIABLES
    cfg,      \* _state: the frozen runtime configuration and the inspectors built from it
    ctx,      \* _context: the inspection context of the running thread (decision, done, skip flags)
    stack,    \* the intercepted calls in progress, outermost first
    last,     \* what the most recently finished intercepted call did and how it ended
    guardLog, \* how the skip guard was just left ("normal", "exception"), until the call after it takes a step
    recorded, \* LLM inspection Decisions recorded since the outermost call in progress began
    input,    \* the value handed to a function under study (a response, a request, a body)
    output,   \* what that function returned, <<>> before it ran
    registry, \* patchers._patch_registry: name -> bool
    wrappers, \* how many wrappers are installed around each entry point of a foreign library
    patchLog, \* the calls of the patch functions so far: what they met and what they returned
    _api_inspector,  \* patchers.mcp._api_inspector: None or the one MCPInspector
    _inspector_lock, \* patchers.mcp._inspector_lock: the thread holding it, if any
    threads,  \* the threads calling the shared MCPInspector: where each one is in _get_next_id
    issued,   \* the JSON-RPC ids handed out so far, in the order _get_next_id returned them
    _session,        \* AsyncRequestHandler._session: None or the aiohttp.ClientSession
    _session_lock,   \* AsyncRequestHandler._session_lock: the task holding it, if any
    _connector,      \* AsyncRequestHandler._connector: the connector of the shared AsyncConfig
    tasks,    \* the asyncio tasks using one AsyncRequestHandler: where each one is
    sessions, \* how many ClientSession objects the handler has created
    closes    \* how many times a session of the handler was closed

RuntimeVars == <<cfg, ctx, stack, last, guardLog, recorded>>
PatchVars == <<registry, wrappers, patchLog>>
InspectorVars == <<_api_inspector, _inspector_lock, threads, issued>>
HandlerVars == <<_session, _session_lock, _connector, tasks, sessions, closes>>

vars == <<cfg, ctx, stack, last, guardLog, recorded, input, output, registry, wrappers, patchLog,
          _api_inspector, _inspector_lock, threads, issued,
          _session, _session_lock, _connector, tasks, sessions, closes>>

-----------------------------------------------------------------------------
(* Bounds of the model *)

MaxDepth == 2          \* intercepted calls in progress at once (nesting during delegation)
MaxRetryAttempts == 2  \* largest retry_attempts an inspector is constructed with
MaxNestedCalls == 1    \* patched calls one wrapped provider function makes before it returns
MaxPatchCalls == 4     \* calls of the patch functions in one run
MaxBlocks == 3         \* content blocks of a gateway response
MaxThreads == 2        \* threads sharing the MCPInspector
MaxIdCalls == 2        \* inspections each thread asks the shared MCPInspector for
MaxBodyLen == 3        \* bytes of an HTTP body
MaxTasks == 3          \* asyncio tasks sharing one AsyncRequestHandler
MaxEnsureCalls == 2    \* calls of ensure_session each task makes
MaxCloses == 2         \* times a session of the handler is closed
MaxRetryTotal == 2      \* largest retry_config["total"] of an AsyncRequestHandler

\* values of the source
PreviewLen == 100      \* characters of a tool result kept in its annotation
B64Invalid == 64       \* what the base64 table gives for a character outside the alphabet
VALID_HTTP_METHODS == {"GET", "POST", "PUT", "DELETE", "PATCH", "HEAD", "OPTIONS"}

-----------------------------------------------------------------------------
(* Python values *)

None == <<>>
Some(x) == <<x>>

EmptyDict == [k \in {} |-> <<>>]

dict_get(d, k, default) == IF k \in DOMAIN d THEN d[k] ELSE default

\* bool(v) for the JSON scalars the parsers test
Truthy(v) == v = "true"

UpperToLower ==
    [c \in {"A","B","C","D","E","F","G","H","I","J","K","L","M",
            "N","O","P","Q","R","S","T","U","V","W","X","Y","Z"} |->
        CASE c = "A" -> "a" [] c = "B" -> "b" [] c = "C" -> "c" [] c = "D" -> "d"
          [] c = "E" -> "e" [] c = "F" -> "f" [] c = "G" -> "g" [] c = "H" -> "h"
          [] c = "I" -> "i" [] c = "J" -> "j" [] c = "K" -> "k" [] c = "L" -> "l"
          [] c = "M" -> "m" [] c = "N" -> "n" [] c = "O" -> "o" [] c = "P" -> "p"
          [] c = "Q" -> "q" [] c = "R" -> "r" [] c = "S" -> "s" [] c = "T" -> "t"
          [] c = "U" -> "u" [] c = "V" -> "v" [] c = "W" -> "w" [] c = "X" -> "x"
          [] c = "Y" -> "y" [] c = "Z" -> "z"]

\* str.lower()
lower(s) == [i \in DOMAIN s |-> IF s[i] \in DOMAIN UpperToLower THEN UpperToLower[s[i]] ELSE s[i]]

s_allow == <<"a","l","l","o","w">>
s_block == <<"b","l","o","c","k">>
s_sanitize == <<"s","a","n","i","t","i","z","e">>
s_monitor_only == <<"m","o","n","i","t","o","r","_","o","n","l","y">>
s_Allow == <<"A","l","l","o","w">>
s_Block == <<"B","l","o","c","k">>

-----------------------------------------------------------------------------
(* Decision: the four constructors *)

Decision_allow(reasons, raw_response) ==
    [action |-> "allow", reasons |-> reasons, sanitized_content |-> None,
     raw_response |-> raw_response]

Decision_block(reasons, raw_response) ==
    [action |-> "block", reasons |-> reasons, sanitized_content |-> None,
     raw_response |-> raw_response]

Decision_sanitize(reasons, sanitized_content, raw_response) ==
    [action |-> "sanitize", reasons |-> reasons, sanitized_content |-> sanitized_content,
     raw_response |-> raw_response]

Decision_monitor_only(reasons, raw_response) ==
    [action |-> "monitor_only", reasons |-> reasons, sanitized_content |-> None,
     raw_response |-> raw_response]

-----------------------------------------------------------------------------
(* LLMInspector: response parsing *)

NoneStr == "None"   \* str(None), and None in a slot that otherwise holds a str

\* rules[*] filter of _parse_response: classification and classification not in (NONE_VIOLATION, NONE_SEVERITY)
llm_rule_selected(rule) ==
    LET classification == dict_get(rule, "classification", NoneStr)
    IN  classification \notin {NoneStr, ""} /\ classification \notin {"NONE_VIOLATION", "NONE_SEVERITY"}

\* processed_rules[*] filter of _parse_response: classification not in (NONE_VIOLATION, None)
llm_processed_rule_selected(rule) ==
    dict_get(rule, "classification", NoneStr) \notin {"NONE_VIOLATION", NoneStr}

llm_rule_reason(rule) ==
    dict_get(rule, "rule_name", NoneStr) \o ": " \o dict_get(rule, "classification", NoneStr)

llm_rules_reasons(rules) ==
    LET sel == SelectSeq(rules, llm_rule_selected)
    IN  [i \in DOMAIN sel |-> llm_rule_reason(sel[i])]

llm_processed_rules_reasons(rules) ==
    LET sel == SelectSeq(rules, llm_processed_rule_selected)
    IN  [i \in DOMAIN sel |-> llm_rule_reason(sel[i])]

\* The reasons list after the two fallbacks of _parse_response
llm_reasons(response_data) ==
    LET reasons0 == dict_get(response_data, "reasons", <<>>)
        reasons1 == IF reasons0 = <<>> /\ "rules" \in DOMAIN response_data
                    THEN reasons0 \o llm_rules_reasons(response_data["rules"])
                    ELSE reasons0
    IN  IF reasons1 = <<>> /\ "processed_rules" \in DOMAIN response_data
        THEN reasons1 \o llm_processed_rules_reasons(response_data["processed_rules"])
        ELSE reasons1

\* response_data as the Decision keeps it: reasons.append() writes through to the
\* response's own "reasons" list when the response has one
llm_raw_response(response_data) ==
    IF "reasons" \in DOMAIN response_data
    THEN [response_data EXCEPT !["reasons"] = llm_reasons(response_data)]
    ELSE response_data

\* variant: the action compared as the service sent it, without .lower()
_parse_response_case_sensitive(response_data) ==
    LET action == dict_get(response_data, "action", s_allow)
        reasons == llm_reasons(response_data)
        sanitized_content == IF "sanitized_content" \in DOMAIN response_data
                             THEN Some(response_data["sanitized_content"]) ELSE None
        raw == Some(llm_raw_response(response_data))
    IN  IF action = s_block THEN Decision_block(reasons, raw)
        ELSE IF action = s_sanitize THEN Decision_sanitize(reasons, sanitized_content, raw)
        ELSE IF action = s_monitor_only THEN Decision_monitor_only(reasons, raw)
        ELSE Decision_allow(reasons, raw)

_parse_response(response_data) ==
    LET action == lower(dict_get(response_data, "action", s_allow))
        reasons == llm_reasons(response_data)
        sanitized_content == IF "sanitized_content" \in DOMAIN response_data
                             THEN Some(response_data["sanitized_content"]) ELSE None
        raw == Some(llm_raw_response(response_data))
    IN  IF action = s_block THEN Decision_block(reasons, raw)
        ELSE IF action = s_sanitize THEN Decision_sanitize(reasons, sanitized_content, raw)
        ELSE IF action = s_monitor_only THEN Decision_monitor_only(reasons, raw)
        ELSE Decision_allow(reasons, raw)

-----------------------------------------------------------------------------
(* MCPInspector: response parsing *)

mcp_rule_selected(rule) ==
    dict_get(rule, "classification", NoneStr) \notin {NoneStr, "", "NONE_VIOLATION"}

mcp_rule_reason(rule) ==
    dict_get(rule, "rule_name", "Unknown") \o ": " \o dict_get(rule, "classification", NoneStr)

mcp_reasons(result) ==
    LET sel == SelectSeq(dict_get(result, "rules", <<>>), mcp_rule_selected)
        reasons == [i \in DOMAIN sel |-> mcp_rule_reason(sel[i])]
        is_safe == dict_get(result, "is_safe", "true")
        severity == dict_get(result, "severity", "UNKNOWN")
        attack_technique == dict_get(result, "attack_technique", "")
        explanation == dict_get(result, "explanation", "")
    IN  IF reasons = <<>> /\ ~Truthy(is_safe)
        THEN IF explanation # "" THEN <<explanation>>
             ELSE IF attack_technique # "" /\ attack_technique # "NONE_ATTACK_TECHNIQUE"
                  THEN <<"Attack technique: " \o attack_technique>>
                  ELSE <<"Unsafe content detected (severity: " \o severity \o ")">>
        ELSE reasons

\* variant: block only when action and is_safe both say unsafe
_parse_mcp_response_both(response_data) ==
    LET result == dict_get(response_data, "result", response_data)
        action == dict_get(result, "action", s_Allow)
        is_safe == dict_get(result, "is_safe", "true")
        reasons == mcp_reasons(result)
    IN  IF action = s_Block /\ ~Truthy(is_safe)
        THEN Decision_block(reasons, Some(response_data))
        ELSE Decision_allow(reasons, Some(response_data))

_parse_mcp_response(response_data) ==
    LET result == dict_get(response_data, "result", response_data)
        action == dict_get(result, "action", s_Allow)
        is_safe == dict_get(result, "is_safe", "true")
        reasons == mcp_reasons(result)
    IN  IF action = s_Block \/ ~Truthy(is_safe)
        THEN Decision_block(reasons, Some(response_data))
        ELSE Decision_allow(reasons, Some(response_data))

-----------------------------------------------------------------------------
(* Inspection-service responses the parsers are applied to *)

Field(present, k, v) == IF present THEN (k :> v) ELSE EmptyDict

LLMActionValues ==
    { s_Block, s_block, <<"B","L","O","C","K">>, s_Allow,
      <<"S","a","n","i","t","i","z","e">>, s_sanitize,
      <<"M","O","N","I","T","O","R","_","O","N","L","Y">>, s_monitor_only,
      <<"R","e","d","a","c","t">>, <<>> }

RuleLists ==
    { <<>>,
      <<[rule_name |-> "Prompt Injection", classification |-> "SECURITY_VIOLATION"]>>,
      <<[rule_name |-> "PII", classification |-> "NONE_VIOLATION"]>>,
      <<[rule_name |-> "Harassment", classification |-> "NONE_SEVERITY"]>>,
      <<[rule_name |-> "Code Detection"]>> }

LLMResponses ==
    { Field(ha, "action", a) @@ Field(hs, "sanitized_content", "[redacted]")
        @@ Field(hr, "reasons", <<>>) @@ Field(hu, "rules", ru) :
        ha \in BOOLEAN, a \in LLMActionValues, hs \in BOOLEAN, hr \in BOOLEAN,
        hu \in BOOLEAN, ru \in RuleLists }

MCPResults ==
    { Field(ha, "action", a) @@ Field(hi, "is_safe", i) @@ Field(hu, "rules", ru)
        @@ Field(he, "explanation", "tool poisoning") :
        ha \in BOOLEAN, a \in {s_Allow, s_Block, s_block},
        hi \in BOOLEAN, i \in {"true", "false", "null"},
        hu \in BOOLEAN, ru \in RuleLists, he \in BOOLEAN }

\* the JSON-RPC envelope {"result": {...}} or the bare result object
MCPResponses ==
    MCPResults \cup { [jsonrpc |-> "2.0", result |-> r] : r \in MCPResults }

ParseInputs ==
    { [kind |-> "llm", data |-> r] : r \in LLMResponses }
      \cup { [kind |-> "mcp", data |-> r] : r \in MCPResponses }

NoInput == [kind |-> "none", data |-> EmptyDict]


-----------------------------------------------------------------------------
(* _state: the configuration frozen at bootstrap *)

Modes == {"off", "monitor", "on_enforce"}

\* The LLM side of the configuration. A field that the selected integration mode
\* never reads keeps its default, so that no two configurations behave alike.
DefaultLLMConfig ==
    [ llm_mode |-> "monitor", llm_integration_mode |-> "api", bedrock_gateway |-> FALSE,
      api_mode_fail_open_llm |-> TRUE, gateway_mode_fail_open_llm |-> TRUE,
      llm_api |-> TRUE, llm_retry_attempts |-> 1 ]

LLMConfigs ==
    \* API mode, the inspection endpoint configured
    { [DefaultLLMConfig EXCEPT !.llm_mode = m, !.api_mode_fail_open_llm = fo,
                               !.llm_retry_attempts = n] :
        m \in Modes, fo \in BOOLEAN, n \in 0..MaxRetryAttempts }
    \* API mode, no inspection endpoint or key
    \cup { [DefaultLLMConfig EXCEPT !.llm_mode = m, !.api_mode_fail_open_llm = fo,
                                    !.llm_api = FALSE] :
        m \in Modes, fo \in BOOLEAN }
    \* gateway mode, the Bedrock gateway configured or not
    \cup { [DefaultLLMConfig EXCEPT !.llm_mode = m, !.llm_integration_mode = "gateway",
                                    !.bedrock_gateway = gw, !.gateway_mode_fail_open_llm = fo] :
        m \in Modes, gw \in BOOLEAN, fo \in BOOLEAN }

\* The MCP side of the configuration, likewise
DefaultMCPConfig ==
    [ mcp_mode |-> "monitor", mcp_integration_mode |-> "api", mcp_gateway_mode |-> "on",
      mcp_gateway |-> FALSE, api_mode_fail_open_mcp |-> TRUE,
      gateway_mode_fail_open_mcp |-> TRUE, mcp_api |-> TRUE, mcp_retry_attempts |-> 1 ]

MCPConfigs ==
    { [DefaultMCPConfig EXCEPT !.mcp_mode = m, !.api_mode_fail_open_mcp = fo,
                               !.mcp_retry_attempts = n] :
        m \in Modes, fo \in BOOLEAN, n \in 0..MaxRetryAttempts }
    \cup { [DefaultMCPConfig EXCEPT !.mcp_mode = m, !.api_mode_fail_open_mcp = fo,
                                    !.mcp_api = FALSE] :
        m \in Modes, fo \in BOOLEAN }
    \cup { [DefaultMCPConfig EXCEPT !.mcp_mode = m, !.mcp_integration_mode = "gateway",
                                    !.mcp_gateway_mode = gm, !.mcp_gateway = gw,
                                    !.gateway_mode_fail_open_mcp = fo] :
        m \in Modes, gm \in {"off", "on"}, gw \in BOOLEAN, fo \in BOOLEAN }

\* One side of the runtime takes every configuration while the other is off, or both
\* sides run in API mode under the same mode
Configs ==
    { l @@ [DefaultMCPConfig EXCEPT !.mcp_mode = "off"] : l \in LLMConfigs }
    \cup { [DefaultLLMConfig EXCEPT !.llm_mode = "off"] @@ m : m \in MCPConfigs }
    \cup { [DefaultLLMConfig EXCEPT !.llm_mode = m] @@ [DefaultMCPConfig EXCEPT !.mcp_mode = m] :
               m \in Modes \ {"off"} }

Max(a, b) == IF a >= b THEN a ELSE b

\* LLMInspector.__init__ / MCPInspector.__init__: self.retry_attempts = max(1, retry_attempts);
\* the patchers build their inspector with the default retry_attempts = 1, an inspector
\* constructed with another value makes that many attempts
llm_inspector_retry_attempts == Max(1, cfg.llm_retry_attempts)
mcp_inspector_retry_attempts == Max(1, cfg.mcp_retry_attempts)

-----------------------------------------------------------------------------
(* _context: the inspection context *)

EmptyContext == [decision |-> None, done |-> FALSE, skip_llm |-> FALSE, skip_mcp |-> FALSE]

get_inspection_context == ctx

is_llm_skip_active == ctx.skip_llm
is_mcp_skip_active == ctx.skip_mcp

\* set_inspection_context(decision=d): merges the decision into the current context
set_inspection_context(c, decision) == [c EXCEPT !.decision = Some(decision)]

\* set_inspection_context(decision=d, done=True)
set_inspection_context_done(c, decision) == [c EXCEPT !.decision = Some(decision), !.done = TRUE]

-----------------------------------------------------------------------------
(* Exceptions *)

SecurityPolicyError(decision) == [type |-> "SecurityPolicyError", decision |-> Some(decision)]
OtherError(type) == [type |-> type, decision |-> None]

\* what a failed attempt of an inspection request raises inside the inspector
ConnectError == [type |-> "ConnectError", msg |-> "All connection attempts failed"]
Http401 == [type |-> "HTTPStatusError", msg |-> "Client error '401 Unauthorized'"]
Http400 == [type |-> "HTTPStatusError", msg |-> "Client error '400 Bad Request'"]
AttemptErrors == {ConnectError, Http401, Http400}

\* what escapes the inspection code of a wrapper outside the inspector's own handling
PatcherError == [type |-> "RuntimeError", msg |-> "Event loop is closed"]

-----------------------------------------------------------------------------
(* Intercepted calls in progress *)

Top == stack[Len(stack)]

NewFrame(kind, op, messages) ==
    [ kind |-> kind,            \* "bedrock" or "mcp"
      op |-> op,                \* the botocore operation name, or "call_tool"
      messages |-> messages,    \* whether normalization yielded any message
      pc |-> "enter",
      attempt |-> 0,            \* attempts of the inspection request in progress that failed
      pre |-> None,             \* the Decision of the pre-call inspection
      preErrors |-> <<>>,       \* what the failed attempts of the pre-call inspection raised, in order
      post |-> None,            \* the Decision of the post-call inspection
      postErrors |-> <<>>,      \* what the failed attempts of the post-call inspection raised, in order
      gateway |-> "none",       \* how the request to the Bedrock gateway ended
      forwarded |-> FALSE,      \* forwarded unchanged: no inspection, no gateway
      header |-> None,          \* the X-Bedrock-Operation header of the request to the gateway
      streamed |-> FALSE,       \* the caller got {"stream": _BedrockFakeStreamWrapper(...)}
      ids |-> 0,                \* calls of MCPInspector._get_next_id made for this call
      nested |-> 0,             \* patched calls made from inside the wrapped function
      trace |-> <<>> ]          \* what the wrapper did, in order

\* the last finished call: its frame, "return" or "raise", the exception raised, how deep
\* it ran (1: called from user code) and the context it left
NoLast == [frame |-> None, outcome |-> "none", exc |-> None, depth |-> 0, ctx |-> None]

\* a new intercepted call can start: from user code, or from inside a wrapped provider function
CanEnter ==
    \/ stack = <<>>
    \/ stack # <<>> /\ Len(stack) < MaxDepth /\ Top.pc = "wrapped" /\ Top.nested < MaxNestedCalls

Pop == SubSeq(stack, 1, Len(stack) - 1)

\* the stack a new call is pushed on: the caller, if any, has made one more nested call
Caller ==
    IF stack = <<>> THEN stack ELSE [stack EXCEPT ![Len(stack)].nested = @ + 1]

NoneRecorded == [pre |-> 0, post |-> 0]

\* The part of the state a wrapper changes: the calls in progress below the running
\* one, the context, the record of the last finished call, the recorded Decisions
World(st, c, l, r) == [stack |-> st, ctx |-> c, last |-> l, recorded |-> r]

\* the world a step of the running (top) call starts from; `last` shows a call only
\* in the state it finished in
Here == World(Pop, ctx, NoLast, recorded)

\* the world a new call starts from
AtEntry == World(Caller, ctx, NoLast, IF stack = <<>> THEN NoneRecorded ELSE recorded)

Apply(w) ==
    /\ stack' = w.stack
    /\ ctx' = w.ctx
    /\ last' = w.last
    /\ recorded' = w.recorded

\* the wrapper goes on as frame f
Continue(w, f) == [w EXCEPT !.stack = Append(@, f)]

\* the wrapper returns to its caller
Return(w, f) ==
    [w EXCEPT !.last = [frame |-> Some(f), outcome |-> "return", exc |-> None,
                        depth |-> Len(w.stack) + 1, ctx |-> Some(w.ctx)]]

\* the wrapper raises e to its caller
Raise(w, f, e) ==
    [w EXCEPT !.last = [frame |-> Some(f), outcome |-> "raise", exc |-> Some(e),
                        depth |-> Len(w.stack) + 1, ctx |-> Some(w.ctx)]]

Did(f, event) == [f EXCEPT !.trace = @ \o <<event>>]

-----------------------------------------------------------------------------
(* LLMInspector: the fail_open policy *)

\* self.fail_open, copied from the state when _get_inspector() builds the inspector
llm_inspector_fail_open == cfg.api_mode_fail_open_llm

\* variant: _handle_error that ignores fail_open and always raises
llm_handle_error_fail_closed(error) ==
    [raises |-> TRUE,
     decision |-> Decision_block(<<"API error: " \o error.type \o ": " \o error.msg>>, None)]

\* _handle_error: the Decision it returns, or (raises) the one the SecurityPolicyError carries
llm_handle_error(error) ==
    IF llm_inspector_fail_open
    THEN [raises |-> FALSE,
          decision |-> Decision_allow(<<"API error (" \o error.type \o "), fail_open=True">>, None)]
    ELSE [raises |-> TRUE,
          decision |-> Decision_block(<<"API error: " \o error.type \o ": " \o error.msg>>, None)]

\* responses of the chat inspection endpoint in the wrapper runs
LLMWireResponses == { ("action" :> s_Block), ("action" :> s_Allow) }

-----------------------------------------------------------------------------
(* patchers/bedrock.py *)

BEDROCK_OPERATIONS == {"InvokeModel", "InvokeModelWithResponseStream", "Converse", "ConverseStream"}

\* operation names user code calls the botocore dispatcher with
Operations == {"Converse", "InvokeModelWithResponseStream", "ListFoundationModels"}

\* operation names a wrapped provider function calls the dispatcher with
NestedOperations == {"Converse"}

StreamingOperations == {"InvokeModelWithResponseStream", "ConverseStream"}

\* variant: every botocore operation is taken for a Bedrock operation
_is_bedrock_operation_any(operation_name) == TRUE

_is_bedrock_operation(operation_name) == operation_name \in BEDROCK_OPERATIONS

bedrock_is_gateway_mode == cfg.llm_integration_mode = "gateway"

bedrock_should_use_gateway ==
    IF is_llm_skip_active THEN FALSE
    ELSE IF ~bedrock_is_gateway_mode THEN FALSE
    ELSE cfg.bedrock_gateway

\* variant: _should_inspect without the skip-guard test
bedrock_should_inspect_unguarded ==
    IF cfg.llm_mode = "off" THEN FALSE
    ELSE ~get_inspection_context.done

bedrock_should_inspect ==
    IF is_llm_skip_active THEN FALSE
    ELSE IF cfg.llm_mode = "off" THEN FALSE
    ELSE ~get_inspection_context.done

\* variant: _enforce_decision that raises on block in every mode
bedrock_enforce_decision_any_mode(decision) == decision.action = "block"

\* _enforce_decision: TRUE when it raises SecurityPolicyError(decision)
bedrock_enforce_decision(decision) ==
    cfg.llm_mode = "on_enforce" /\ decision.action = "block"

\* _handle_patcher_error
_handle_patcher_error(error) ==
    IF cfg.api_mode_fail_open_llm
    THEN [raises |-> FALSE,
          decision |-> Decision_allow(<<"Inspection error (" \o error.type \o "), fail_open=True">>, None)]
    ELSE [raises |-> TRUE,
          decision |-> Decision_block(<<"Inspection error: " \o error.type \o ": " \o error.msg>>, None)]

\* the pre-call inspection returned decision: record it, enforce it, call the original
bedrock_pre_decision(w, f, decision) ==
    LET w1 == [w EXCEPT !.ctx = set_inspection_context(@, decision), !.recorded.pre = @ + 1]
        g == [Did(f, "pre_end") EXCEPT !.pre = Some(decision)]
    IN  IF bedrock_enforce_decision(decision)
        THEN Raise(w1, g, SecurityPolicyError(decision))
        ELSE Continue(w1, [Did(g, "wrapped_call") EXCEPT !.pc = "wrapped"])

\* variant: the post-call Decision enforced without being recorded in the context
bedrock_post_decision_unrecorded(w, f, decision) ==
    LET g == [Did(f, "post_end") EXCEPT !.post = Some(decision)]
    IN  IF bedrock_enforce_decision(decision)
        THEN Raise(w, g, SecurityPolicyError(decision))
        ELSE Return(w, g)

\* the post-call inspection returned decision: record it with done, enforce it, return the response
bedrock_post_decision(w, f, decision) ==
    LET w1 == [w EXCEPT !.ctx = set_inspection_context_done(@, decision), !.recorded.post = @ + 1]
        g == [Did(f, "post_end") EXCEPT !.post = Some(decision)]
    IN  IF bedrock_enforce_decision(decision)
        THEN Raise(w1, g, SecurityPolicyError(decision))
        ELSE Return(w1, g)

\* variant: the original called before the pre-call inspection begins
bedrock_inspect_pre_after_call(w, f) ==
    Continue(w, [Did(Did(f, "wrapped_call"), "pre_start") EXCEPT !.pc = "pre", !.attempt = 0])

\* inspector.inspect_conversation up to its first request: without endpoint or key it
\* returns Decision.allow() at once
bedrock_inspect_pre(w, f) ==
    IF ~cfg.llm_api
    THEN bedrock_pre_decision(w, Did(f, "pre_start"), Decision_allow(<<>>, None))
    ELSE Continue(w, [Did(f, "pre_start") EXCEPT !.pc = "pre", !.attempt = 0])

bedrock_inspect_post(w, f) ==
    IF ~cfg.llm_api
    THEN bedrock_post_decision(w, Did(f, "post_start"), Decision_allow(<<>>, None))
    ELSE Continue(w, [Did(f, "post_start") EXCEPT !.pc = "post", !.attempt = 0])

\* str.replace(old, new)
RECURSIVE replace(_, _, _)
replace(s, old, new) ==
    IF Len(s) < Len(old) THEN s
    ELSE IF SubSeq(s, 1, Len(old)) = old
    THEN new \o replace(SubSeq(s, Len(old) + 1, Len(s)), old, new)
    ELSE SubSeq(s, 1, 1) \o replace(SubSeq(s, 2, Len(s)), old, new)

\* the operation name _handle_bedrock_gateway_call is called with
gateway_operation_name(operation_name) ==
    IF operation_name \in {"Converse", "InvokeModel"} THEN operation_name
    ELSE replace(operation_name, "Stream", "")

\* _wrap_make_api_call from its entry to the first request it sends or the call of the original
_wrap_make_api_call(w, operation_name, messages) ==
    LET f == NewFrame("bedrock", operation_name, messages)
    IN  IF ~_is_bedrock_operation(operation_name) \/ ~bedrock_should_inspect
        THEN Continue(w, [Did(f, "wrapped_call") EXCEPT !.pc = "wrapped", !.forwarded = TRUE])
        ELSE IF bedrock_should_use_gateway
        THEN Continue(w, [Did(f, "gateway_post") EXCEPT !.pc = "gateway",
                              !.header = Some(gateway_operation_name(operation_name))])
        ELSE IF messages
        THEN bedrock_inspect_pre(w, f)
        ELSE Continue(w, [Did(f, "wrapped_call") EXCEPT !.pc = "wrapped"])

\* variant: the post-call inspection run whenever the response yields text
bedrock_after_wrapped_any_request(w, f, content) ==
    IF f.op \notin StreamingOperations /\ content
    THEN bedrock_inspect_post(w, f)
    ELSE Return(w, f)

\* _wrap_make_api_call after the original returned; content: the response yields assistant text
bedrock_after_wrapped(w, f, content) ==
    IF f.op \notin StreamingOperations /\ content /\ f.messages
    THEN bedrock_inspect_post(w, f)
    ELSE Return(w, f)

\* _handle_bedrock_gateway_call once the gateway request has ended
_handle_bedrock_gateway_call(w, f, outcome) ==
    LET g == [Did(f, "gateway_response") EXCEPT !.gateway = outcome]
    IN  IF outcome = "ok"
        THEN Return([w EXCEPT !.ctx = set_inspection_context_done(@,
                        Decision_allow(<<"Gateway handled inspection">>, None))],
                    [g EXCEPT !.streamed = f.op \in StreamingOperations])
        ELSE IF outcome = "HTTPStatusError"
        THEN IF cfg.gateway_mode_fail_open_llm
             THEN Raise([w EXCEPT !.ctx = set_inspection_context_done(@,
                            Decision_allow(<<"Gateway error, fail_open=True">>, None))], g,
                        SecurityPolicyError(Decision_block(<<"Gateway unavailable">>, None)))
             ELSE Raise(w, g, OtherError("HTTPStatusError"))
        ELSE Raise(w, g, OtherError(outcome))

GatewayOutcomes == {"ok", "HTTPStatusError", "ConnectError"}

\* LLMInspector.inspect_conversation: the attempt in progress got response_json
llm_attempt_succeeds(w, f, response_json) ==
    IF f.pc = "pre"
    THEN bedrock_pre_decision(w, f, _parse_response(response_json))
    ELSE bedrock_post_decision(w, f, _parse_response(response_json))

\* variant: the fail_open policy applied to the first attempt that fails
llm_attempt_fails_no_retry(w, f, error) ==
    LET g == IF f.pc = "pre"
             THEN [f EXCEPT !.attempt = @ + 1, !.preErrors = Append(@, error)]
             ELSE [f EXCEPT !.attempt = @ + 1, !.postErrors = Append(@, error)]
        h == llm_handle_error(error)
    IN  IF h.raises
        THEN Raise(w, Did(g, IF f.pc = "pre" THEN "pre_end" ELSE "post_end"),
                   SecurityPolicyError(h.decision))
        ELSE IF f.pc = "pre" THEN bedrock_pre_decision(w, g, h.decision)
        ELSE bedrock_post_decision(w, g, h.decision)

\* LLMInspector.inspect_conversation: the attempt in progress raised error
llm_attempt_fails(w, f, error) ==
    LET g == IF f.pc = "pre"
             THEN [f EXCEPT !.attempt = @ + 1, !.preErrors = Append(@, error)]
             ELSE [f EXCEPT !.attempt = @ + 1, !.postErrors = Append(@, error)]
        h == llm_handle_error(error)
    IN  IF g.attempt < llm_inspector_retry_attempts
        THEN Continue(w, g)
        ELSE IF h.raises
        THEN Raise(w, Did(g, IF f.pc = "pre" THEN "pre_end" ELSE "post_end"),
                   SecurityPolicyError(h.decision))
        ELSE IF f.pc = "pre" THEN bedrock_pre_decision(w, g, h.decision)
        ELSE bedrock_post_decision(w, g, h.decision)

\* an exception that is no SecurityPolicyError escapes the inspection code of the wrapper
bedrock_inspection_raises(w, f, error) ==
    LET h == _handle_patcher_error(error)
    IN  IF f.pc = "pre"
        THEN IF h.raises
             THEN Raise(w, Did(f, "pre_end"), SecurityPolicyError(h.decision))
             ELSE Continue([w EXCEPT !.ctx = set_inspection_context(@, h.decision),
                                     !.recorded.pre = @ + 1],
                           [Did(Did(f, "pre_end"), "wrapped_call") EXCEPT
                               !.pc = "wrapped", !.pre = Some(h.decision)])
        ELSE Return(w, Did(f, "post_end"))

-----------------------------------------------------------------------------
(* MCPInspector: the fail_open policy *)

\* self.fail_open, copied from the state when _get_api_inspector() builds the inspector
mcp_inspector_fail_open == cfg.api_mode_fail_open_mcp

\* variant: _handle_error that ignores fail_open and always raises
mcp_handle_error_fail_closed(error) ==
    [raises |-> TRUE,
     decision |-> Decision_block(<<"MCP inspection error: " \o error.type \o ": " \o error.msg>>, None)]

\* _handle_error: the Decision it returns, or (raises) the one the SecurityPolicyError carries
mcp_handle_error(error) ==
    IF mcp_inspector_fail_open
    THEN [raises |-> FALSE,
          decision |-> Decision_allow(<<"MCP inspection error (" \o error.type \o "), fail_open=True">>, None)]
    ELSE [raises |-> TRUE,
          decision |-> Decision_block(<<"MCP inspection error: " \o error.type \o ": " \o error.msg>>, None)]

\* responses of the MCP inspection endpoint in the wrapper runs
MCPWireResponses ==
    { [jsonrpc |-> "2.0", result |-> [action |-> s_Block, is_safe |-> "false"]],
      [jsonrpc |-> "2.0", result |-> [action |-> s_Allow, is_safe |-> "true"]] }

\* MCPGatewayInspector.ainspect_request / ainspect_response: the gateway inspects, the
\* client passes the call through
mcp_gateway_inspect == Decision_allow(<<"Gateway handles inspection">>, None)

-----------------------------------------------------------------------------
(* patchers/mcp.py *)

mcp_is_gateway_mode == cfg.mcp_integration_mode = "gateway"

mcp_should_use_gateway ==
    IF is_mcp_skip_active THEN FALSE
    ELSE IF ~mcp_is_gateway_mode THEN FALSE
    ELSE IF cfg.mcp_gateway_mode = "off" THEN FALSE
    ELSE cfg.mcp_gateway

mcp_should_inspect ==
    IF is_mcp_skip_active THEN FALSE
    ELSE IF cfg.mcp_mode = "off" THEN FALSE
    ELSE TRUE

\* variant: _enforce_decision that raises only outside on_enforce
mcp_enforce_decision_monitor(decision) ==
    cfg.mcp_mode = "monitor" /\ decision.action = "block"

\* _enforce_decision: TRUE when it raises SecurityPolicyError(decision)
mcp_enforce_decision(decision) ==
    cfg.mcp_mode = "on_enforce" /\ decision.action = "block"

\* getattr(inspector, 'fail_open', ...) of the inspector _get_inspector() returned
mcp_wrapper_fail_open ==
    IF mcp_should_use_gateway THEN cfg.gateway_mode_fail_open_mcp ELSE mcp_inspector_fail_open

mcp_pre_decision(w, f, decision) ==
    LET w1 == [w EXCEPT !.ctx = set_inspection_context(@, decision)]
        g == [Did(f, "pre_end") EXCEPT !.pre = Some(decision)]
    IN  IF mcp_enforce_decision(decision)
        THEN Raise(w1, g, SecurityPolicyError(decision))
        ELSE Continue(w1, [Did(g, "wrapped_call") EXCEPT !.pc = "wrapped"])

mcp_post_decision(w, f, decision) ==
    LET w1 == [w EXCEPT !.ctx = set_inspection_context_done(@, decision)]
        g == [Did(f, "post_end") EXCEPT !.post = Some(decision)]
    IN  IF mcp_enforce_decision(decision)
        THEN Raise(w1, g, SecurityPolicyError(decision))
        ELSE Return(w1, g)

\* variant: ainspect_request without the test of endpoint and key
mcp_inspect_pre_unconfigured(w, f) ==
    IF mcp_should_use_gateway
    THEN mcp_pre_decision(w, Did(f, "pre_start"), mcp_gateway_inspect)
    ELSE Continue(w, [Did(f, "pre_start") EXCEPT !.pc = "pre", !.attempt = 0, !.ids = @ + 1])

\* inspector.ainspect_request up to its first request: without endpoint or key it
\* returns Decision.allow() at once; otherwise _build_request_message takes the next id
mcp_inspect_pre(w, f) ==
    IF mcp_should_use_gateway
    THEN mcp_pre_decision(w, Did(f, "pre_start"), mcp_gateway_inspect)
    ELSE IF ~cfg.mcp_api
    THEN mcp_pre_decision(w, Did(f, "pre_start"), Decision_allow(<<>>, None))
    ELSE Continue(w, [Did(f, "pre_start") EXCEPT !.pc = "pre", !.attempt = 0, !.ids = @ + 1])

\* inspector.ainspect_response up to its first request; _build_response_message takes
\* the next id
mcp_inspect_post(w, f) ==
    IF mcp_should_use_gateway
    THEN mcp_post_decision(w, Did(f, "post_start"), mcp_gateway_inspect)
    ELSE IF ~cfg.mcp_api
    THEN mcp_post_decision(w, Did(f, "post_start"), Decision_allow(<<>>, None))
    ELSE Continue(w, [Did(f, "post_start") EXCEPT !.pc = "post", !.attempt = 0, !.ids = @ + 1])

\* _wrap_call_tool from its entry to the first request it sends or the await of the original
_wrap_call_tool(w) ==
    LET f == NewFrame("mcp", "call_tool", TRUE)
        use_gateway == mcp_should_use_gateway
    IN  IF ~use_gateway /\ ~mcp_should_inspect
        THEN Continue(w, [Did(f, "wrapped_call") EXCEPT !.pc = "wrapped", !.forwarded = TRUE])
        ELSE mcp_inspect_pre(w, f)

\* MCPInspector.ainspect_request / ainspect_response: the attempt in progress got a response
mcp_attempt_succeeds(w, f, response_json) ==
    IF f.pc = "pre"
    THEN mcp_pre_decision(w, f, _parse_mcp_response(response_json))
    ELSE mcp_post_decision(w, f, _parse_mcp_response(response_json))

\* MCPInspector.ainspect_request / ainspect_response: the attempt in progress raised error
mcp_attempt_fails(w, f, error) ==
    LET g == IF f.pc = "pre"
             THEN [f EXCEPT !.attempt = @ + 1, !.preErrors = Append(@, error)]
             ELSE [f EXCEPT !.attempt = @ + 1, !.postErrors = Append(@, error)]
        h == mcp_handle_error(error)
    IN  IF g.attempt < mcp_inspector_retry_attempts
        THEN Continue(w, g)
        ELSE IF h.raises
        THEN Raise(w, Did(g, IF f.pc = "pre" THEN "pre_end" ELSE "post_end"),
                   SecurityPolicyError(h.decision))
        ELSE IF f.pc = "pre" THEN mcp_pre_decision(w, g, h.decision)
        ELSE mcp_post_decision(w, g, h.decision)

\* an exception that is no SecurityPolicyError escapes the inspection code of the wrapper
mcp_inspection_raises(w, f, error) ==
    IF f.pc = "pre"
    THEN IF ~mcp_wrapper_fail_open
         THEN Raise(w, Did(f, "pre_end"),
                    SecurityPolicyError(Decision_block(<<"MCP inspection error: " \o error.msg>>, None)))
         ELSE Continue(w, [Did(Did(f, "pre_end"), "wrapped_call") EXCEPT !.pc = "wrapped"])
    ELSE Return(w, Did(f, "post_end"))

-----------------------------------------------------------------------------
(* The wrapped provider function *)

wrapped_returns(w, f, content) ==
    LET g == Did(f, "wrapped_return")
    IN  IF f.forwarded THEN Return(w, g)
        ELSE IF f.kind = "bedrock" THEN bedrock_after_wrapped(w, g, content)
        ELSE mcp_inspect_post(w, g)

\* variant: the wrapper reports a failure of the original as a policy violation
wrapped_raises_as_policy_error(w, f) ==
    Raise(w, Did(f, "wrapped_raise"),
          SecurityPolicyError(Decision_block(<<"ProviderError">>, None)))

\* the original raises: no handler of the wrapper encloses the call
wrapped_raises(w, f) == Raise(w, Did(f, "wrapped_raise"), OtherError("ProviderError"))

-----------------------------------------------------------------------------
(* patchers/__init__.py: the patch registry; patch_bedrock and patch_mcp *)

is_patched(reg, name) == dict_get(reg, name, FALSE)

mark_patched(reg, name) == (name :> TRUE) @@ reg

get_patched_clients == { name \in DOMAIN registry : registry[name] }

\* _base.safe_import: the module, or None when the library cannot be imported
safe_import(importable) == IF importable THEN Some("module") ELSE None

PatchNames == {"bedrock", "mcp"}

PatchTargets ==
    {"BaseClient._make_api_call", "ClientSession.call_tool", "streamablehttp_client"}

Unwrapped == [t \in PatchTargets |-> 0]

\* wrapt.wrap_function_wrapper: one more wrapper around the target
wrap_function_wrapper(w, target) == [w EXCEPT ![target] = @ + 1]

\* what a patch function leaves: the registry, the wrappers, what it returned and
\* whether it wrapped its entry point
PatchOutcome(reg, w, returned, wrapped) ==
    [registry |-> reg, wrappers |-> w, returned |-> returned, wrapped |-> wrapped]

\* variant: patch_bedrock without the is_patched test
patch_bedrock_unchecked(importable, wrap_raises) ==
    IF safe_import(importable) = None
    THEN PatchOutcome(registry, wrappers, FALSE, FALSE)
    ELSE IF wrap_raises
    THEN PatchOutcome(registry, wrappers, FALSE, FALSE)
    ELSE PatchOutcome(mark_patched(registry, "bedrock"),
                      wrap_function_wrapper(wrappers, "BaseClient._make_api_call"),
                      TRUE, TRUE)

\* patch_bedrock from safe_import on, after is_patched("bedrock") answered False
patch_bedrock_wrap(importable, wrap_raises) ==
    IF safe_import(importable) = None
    THEN PatchOutcome(registry, wrappers, FALSE, FALSE)
    ELSE IF wrap_raises
    THEN PatchOutcome(registry, wrappers, FALSE, FALSE)
    ELSE PatchOutcome(mark_patched(registry, "bedrock"),
                      wrap_function_wrapper(wrappers, "BaseClient._make_api_call"),
                      TRUE, TRUE)

patch_bedrock(importable, wrap_raises) ==
    IF is_patched(registry, "bedrock")
    THEN PatchOutcome(registry, wrappers, TRUE, FALSE)
    ELSE patch_bedrock_wrap(importable, wrap_raises)

\* patch_mcp from safe_import on, after is_patched("mcp") answered False
\* streamable_raises: wrapping streamablehttp_client raises, which patch_mcp only logs
patch_mcp_wrap(importable, wrap_raises, streamable_raises) ==
    IF safe_import(importable) = None
    THEN PatchOutcome(registry, wrappers, FALSE, FALSE)
    ELSE IF wrap_raises
    THEN PatchOutcome(registry, wrappers, FALSE, FALSE)
    ELSE LET w1 == wrap_function_wrapper(wrappers, "ClientSession.call_tool")
             w2 == IF streamable_raises THEN w1
                   ELSE wrap_function_wrapper(w1, "streamablehttp_client")
         IN  PatchOutcome(mark_patched(registry, "mcp"), w2, TRUE, TRUE)

patch_mcp(importable, wrap_raises, streamable_raises) ==
    IF is_patched(registry, "mcp")
    THEN PatchOutcome(registry, wrappers, TRUE, FALSE)
    ELSE patch_mcp_wrap(importable, wrap_raises, streamable_raises)

\* both patchers installed, as after protect()
AllPatched ==
    /\ registry = ("bedrock" :> TRUE) @@ ("mcp" :> TRUE)
    /\ wrappers = [t \in PatchTargets |-> 1]
    /\ patchLog = <<>>

-----------------------------------------------------------------------------
(* patchers/bedrock.py: _BedrockFakeStreamWrapper *)

\* content blocks of a Converse response: a dict with one of the keys "text", "toolUse"
\* or another key of the ContentBlock union
TextBlocks == { ("text" :> "Hello"), ("text" :> "") }
ToolUseBlocks ==
    { ("toolUse" :> [toolUseId |-> "tu_1", name |-> "get_weather", input |-> ("city" :> "Paris")]),
      ("toolUse" :> EmptyDict) }
OtherBlocks == { ("reasoningContent" :> "thinking") }
Blocks == TextBlocks \cup ToolUseBlocks \cup OtherBlocks

RECURSIVE SeqsUpTo(_, _)
SeqsUpTo(S, n) ==
    IF n = 0 THEN { <<>> }
    ELSE LET shorter == SeqsUpTo(S, n - 1)
         IN shorter \cup { Append(q, x) : q \in { r \in shorter : Len(r) = n - 1 }, x \in S }

\* json.dumps of a dict with at most one key, both key and value being str
json_dumps(d) ==
    IF DOMAIN d = {} THEN "{}"
    ELSE LET k == CHOOSE key \in DOMAIN d : TRUE
         IN "{\"" \o k \o "\": \"" \o d[k] \o "\"}"

contentBlockStart(idx, start) ==
    [contentBlockStart |-> [contentBlockIndex |-> idx, start |-> start]]
contentBlockDelta(idx, delta) ==
    [contentBlockDelta |-> [contentBlockIndex |-> idx, delta |-> delta]]
contentBlockStop(idx) == [contentBlockStop |-> [contentBlockIndex |-> idx]]

\* a variant of the loop body that passes over tool-use blocks
block_events_text_only(idx, block) ==
    IF "text" \in DOMAIN block
    THEN << contentBlockStart(idx, [text |-> ""]),
            contentBlockDelta(idx, [text |-> block["text"]]),
            contentBlockStop(idx) >>
    ELSE << >>

\* the body of `for idx, block in enumerate(content)`
block_events(idx, block) ==
    IF "text" \in DOMAIN block
    THEN << contentBlockStart(idx, [text |-> ""]),
            contentBlockDelta(idx, [text |-> block["text"]]),
            contentBlockStop(idx) >>
    ELSE IF "toolUse" \in DOMAIN block
    THEN LET tool_use == block["toolUse"]
         IN << contentBlockStart(idx, [toolUse |->
                    [toolUseId |-> dict_get(tool_use, "toolUseId", ""),
                     name |-> dict_get(tool_use, "name", "")]]),
               contentBlockDelta(idx, [toolUse |->
                    [input |-> json_dumps(dict_get(tool_use, "input", EmptyDict))]]),
               contentBlockStop(idx) >>
    ELSE << >>

\* enumerate(content) counts from 0; content[idx] of the code is content[idx + 1] here
RECURSIVE content_events(_, _)
content_events(content, idx) ==
    IF idx >= Len(content) THEN << >>
    ELSE block_events(idx, content[idx + 1]) \o content_events(content, idx + 1)

_generate_events(response) ==
    LET message == dict_get(dict_get(response, "output", EmptyDict), "message", EmptyDict)
        role == dict_get(message, "role", "assistant")
        content == dict_get(message, "content", << >>)
        stop_reason == dict_get(response, "stopReason", "end_turn")
        usage == dict_get(response, "usage", EmptyDict)
    IN << [messageStart |-> [role |-> role]] >>
       \o content_events(content, 0)
       \o << [messageStop |-> [stopReason |-> stop_reason]],
             [metadata |-> [usage |-> usage,
                            metrics |-> dict_get(response, "metrics", [latencyMs |-> 0])]] >>

\* gateway responses the wrapper is built around
ConverseResponse(content) ==
    [output |-> [message |-> [role |-> "assistant", content |-> content]],
     stopReason |-> "end_turn",
     usage |-> [inputTokens |-> 1, outputTokens |-> 1]]
StreamResponses ==
    { ConverseResponse(content) : content \in SeqsUpTo(Blocks, MaxBlocks) } \cup { EmptyDict }
StreamInputs == { [kind |-> "stream", data |-> r] : r \in StreamResponses }
NewStream == [events |-> << >>, stopped |-> FALSE]

-----------------------------------------------------------------------------
(* MCPInspector: the JSON-RPC id counter; patchers/mcp.py: the shared inspector *)

Threads == 1..MaxThreads

\* MCPInspector.__init__: self._request_id_counter = 0
MCPInspector_init == [_request_id_counter |-> 0]

\* a thread is outside the inspector ("idle"), in _get_api_inspector ("acquire", "create")
\* or in _get_next_id: before the read of `+= 1` ("load"), between its read and its write
\* ("store"), before `return self._request_id_counter` ("return")
IdleThread == [pc |-> "idle", calls |-> 0, value |-> 0]

NoInspectorYet ==
    /\ _api_inspector = None
    /\ _inspector_lock = None
    /\ threads = [t \in Threads |-> IdleThread]
    /\ issued = << >>

-----------------------------------------------------------------------------
(* patchers/bedrock.py: normalization of Bedrock requests into messages *)

\* a Python value whose type the code tests with isinstance carries its type as its key
PyStr(text) == [str |-> text]
PyList(items) == [list |-> items]
isinstance(v, type) == type \in DOMAIN v

RECURSIVE join(_, _)
join(sep, parts) ==
    IF parts = << >> THEN ""
    ELSE IF Len(parts) = 1 THEN parts[1]
    ELSE parts[1] \o sep \o join(sep, Tail(parts))

RECURSIVE Repeat(_, _)
Repeat(text, n) == IF n = 0 THEN "" ELSE text \o Repeat(text, n - 1)

\* text[:n]
Slice(text, n) == IF Len(text) <= n THEN text ELSE SubSeq(text, 1, n)

\* the text parts of the content of one toolResult block
RECURSIVE tool_result_parts(_)
tool_result_parts(result_content) ==
    IF result_content = << >> THEN << >>
    ELSE LET rc == Head(result_content)
             part == IF "text" \in DOMAIN rc
                     THEN IF Len(dict_get(rc, "text", "")) > PreviewLen
                          THEN << "[Tool result: " \o Slice(rc["text"], PreviewLen) \o "...]" >>
                          ELSE << "[Tool result: " \o dict_get(rc, "text", "") \o "]" >>
                     ELSE << >>
         IN part \o tool_result_parts(Tail(result_content))

\* the text parts one Converse content block contributes
converse_block_parts(block) ==
    IF "text" \in DOMAIN block THEN << block["text"] >>
    ELSE IF "toolUse" \in DOMAIN block
    THEN << "[Tool call: " \o dict_get(block["toolUse"], "name", "unknown") \o "]" >>
    ELSE IF "toolResult" \in DOMAIN block
    THEN tool_result_parts(dict_get(block["toolResult"], "content", << >>))
    ELSE << >>

RECURSIVE converse_text_parts(_)
converse_text_parts(content) ==
    IF content = << >> THEN << >>
    ELSE converse_block_parts(Head(content)) \o converse_text_parts(Tail(content))

\* the body of `for msg in api_params.get("messages", [])`
converse_message(msg) ==
    LET role == dict_get(msg, "role", "user")
        content == dict_get(msg, "content", PyList(<< >>))
        text == IF isinstance(content, "list")
                THEN join(" ", converse_text_parts(content.list))
                ELSE content.str
    IN IF text # "" THEN << [role |-> role, content |-> text] >> ELSE << >>

RECURSIVE converse_messages(_)
converse_messages(msgs) ==
    IF msgs = << >> THEN << >>
    ELSE converse_message(Head(msgs)) \o converse_messages(Tail(msgs))

RECURSIVE system_texts(_)
system_texts(system_content) ==
    IF system_content = << >> THEN << >>
    ELSE (IF "text" \in DOMAIN Head(system_content)
          THEN << dict_get(Head(system_content), "text", "") >> ELSE << >>)
         \o system_texts(Tail(system_content))

_parse_converse_messages(api_params) ==
    LET system ==
            IF "system" \in DOMAIN api_params
            THEN LET system_content == api_params["system"]
                 IN IF isinstance(system_content, "list")
                    THEN LET text == join(" ", system_texts(system_content.list))
                         IN IF text # "" THEN << [role |-> "system", content |-> text] >>
                            ELSE << >>
                    ELSE IF isinstance(system_content, "str")
                    THEN << [role |-> "system", content |-> system_content.str] >>
                    ELSE << >>
            ELSE << >>
    IN system \o converse_messages(dict_get(api_params, "messages", << >>))

\* the text parts one content block of a Claude body contributes
claude_block_parts(c) ==
    LET block_type == dict_get(c, "type", "")
    IN IF block_type = "text" THEN << dict_get(c, "text", "") >>
       ELSE IF block_type = "tool_use"
       THEN << "[Tool call: " \o dict_get(c, "name", "unknown") \o "]" >>
       ELSE IF block_type = "tool_result"
       THEN LET tool_content == dict_get(c, "content", PyStr(""))
            IN IF isinstance(tool_content, "str")
               THEN LET preview == IF Len(tool_content.str) > PreviewLen
                                   THEN Slice(tool_content.str, PreviewLen) \o "..."
                                   ELSE tool_content.str
                    IN << "[Tool result: " \o preview \o "]" >>
               ELSE << >>
       ELSE << >>

RECURSIVE claude_text_parts(_)
claude_text_parts(content) ==
    IF content = << >> THEN << >>
    ELSE claude_block_parts(Head(content)) \o claude_text_parts(Tail(content))

claude_message(msg) ==
    LET role == dict_get(msg, "role", "user")
        raw == dict_get(msg, "content", PyStr(""))
        content == IF isinstance(raw, "list") THEN join(" ", claude_text_parts(raw.list))
                   ELSE raw.str
    IN IF content # "" THEN << [role |-> role, content |-> content] >> ELSE << >>

RECURSIVE claude_messages(_)
claude_messages(msgs) ==
    IF msgs = << >> THEN << >>
    ELSE claude_message(Head(msgs)) \o claude_messages(Tail(msgs))

\* json.loads(body): the parsed dict, or None when the body is not JSON
json_loads(body) == IF body.json THEN Some(body.data) ELSE None

_parse_bedrock_messages(body) ==
    IF json_loads(body) = None THEN << >>
    ELSE LET data == json_loads(body)[1]
         IN IF "messages" \in DOMAIN data
            THEN (IF "system" \in DOMAIN data
                  THEN << [role |-> "system", content |-> data["system"]] >> ELSE << >>)
                 \o claude_messages(data["messages"])
            ELSE IF "inputText" \in DOMAIN data
            THEN << [role |-> "user", content |-> data["inputText"]] >>
            ELSE IF "prompt" \in DOMAIN data
            THEN << [role |-> "user", content |-> data["prompt"]] >>
            ELSE << >>

\* requests the normalization is applied to
LongText == Repeat("x", PreviewLen + 1)
ToolResultBlocks ==
    { ("toolResult" :> [content |-> << ("text" :> "22C") >>]),
      ("toolResult" :> [content |-> << ("text" :> LongText) >>]),
      ("toolResult" :> [content |-> << ("json" :> "{\"temp\": 22}") >>]),
      ("toolResult" :> [content |-> << >>]) }
ConverseBlocks ==
    { ("text" :> "Hello"), ("text" :> ""), ("toolUse" :> [name |-> "get_weather"]),
      ("image" :> "png") } \cup ToolResultBlocks
ConverseContents ==
    { PyList(blocks) : blocks \in SeqsUpTo(ConverseBlocks, MaxBlocks) }
        \cup { PyStr("Hello"), PyStr("") }
ConverseMessageLists ==
    { << >> }
        \cup { << [role |-> "user", content |-> content] >> : content \in ConverseContents }
        \cup { << [role |-> "user", content |-> content],
                  [role |-> "assistant", content |-> PyList(<< ("text" :> "Hi") >>)] >> :
               content \in ConverseContents }
ConverseSystems ==
    { PyList(<< ("text" :> "Be brief") >>), PyList(<< ("text" :> "") >>),
      PyStr("Be brief"), PyStr("") }
ConverseParams ==
    { [messages |-> msgs] : msgs \in ConverseMessageLists }
        \cup { [messages |-> msgs, system |-> system] :
               msgs \in { m \in ConverseMessageLists : Len(m) <= 1 /\
                            \A i \in DOMAIN m : isinstance(m[i].content, "str") },
               system \in ConverseSystems }
ClaudeBlocks ==
    { [type |-> "text", text |-> "Hello"], [type |-> "text", text |-> ""], [type |-> "text"],
      [type |-> "tool_use", name |-> "get_weather"],
      [type |-> "tool_result", content |-> PyStr("22C")],
      [type |-> "tool_result", content |-> PyStr(LongText)],
      [type |-> "tool_result", content |-> PyList(<< [type |-> "text", text |-> "22C"] >>)],
      [type |-> "image"] }
ClaudeContents ==
    { PyList(blocks) : blocks \in SeqsUpTo(ClaudeBlocks, MaxBlocks - 1) }
        \cup { PyStr("Hello"), PyStr("") }
ClaudeBodies ==
    { [messages |-> << [role |-> "user", content |-> content] >>] : content \in ClaudeContents }
        \cup { [messages |-> << [role |-> "user", content |-> PyStr(text)] >>, system |-> system] :
               text \in {"Hello", ""}, system \in {"Be brief", ""} }
InvokeBodies ==
    { [json |-> TRUE, data |-> data] :
        data \in ClaudeBodies
                 \cup { [inputText |-> text] : text \in {"Hello", ""} }
                 \cup { [prompt |-> text] : text \in {"Hello", ""} }
                 \cup { [textGenerationConfig |-> "none"] } }
        \cup { [json |-> FALSE, data |-> EmptyDict] }
NormalizeInputs ==
    { [kind |-> "converse", data |-> p] : p \in ConverseParams }
        \cup { [kind |-> "invoke", data |-> b] : b \in InvokeBodies }

-----------------------------------------------------------------------------
(* runtime/utils.py and runtime/http_inspect.py: bodies of the HTTP inspection API *)

\* bytes are sequences of numbers 0..255; a str is a string; the other Python values a
\* body can be carry their type as their key, like PyStr and PyList
PyBytes(data) == [bytes |-> data]
PyInt(n) == [int |-> n]
PyNone == [none |-> "None"]

\* bool(v) of a body
Falsy(v) == v \in { PyNone, PyStr(""), PyBytes(<< >>), PyInt(0), PyList(<< >>), [dict |-> << >>] }

CharAt(text, i) == SubSeq(text, i, i)

\* str.encode(): the UTF-8 bytes of a str of ASCII characters
Utf8Code ==
    (" " :> 32) @@ ("=" :> 61) @@ ("A" :> 65) @@ ("G" :> 71) @@ ("V" :> 86) @@ ("a" :> 97)
    @@ ("d" :> 100) @@ ("e" :> 101) @@ ("h" :> 104) @@ ("i" :> 105) @@ ("k" :> 107)
    @@ ("r" :> 114) @@ ("s" :> 115) @@ ("t" :> 116) @@ ("z" :> 122)
str_encode(text) == [i \in 1..Len(text) |-> Utf8Code[CharAt(text, i)]]

B64Alphabet == "ABCDEFGHIJKLMNOPQRSTUVWXYZabcdefghijklmnopqrstuvwxyz0123456789+/"
B64Char(n) == CharAt(B64Alphabet, n + 1)
\* the value of a character of the alphabet, B64Invalid for any other character
B64Value(ch) ==
    IF \E i \in 1..Len(B64Alphabet) : CharAt(B64Alphabet, i) = ch
    THEN (CHOOSE i \in 1..Len(B64Alphabet) : CharAt(B64Alphabet, i) = ch) - 1
    ELSE B64Invalid

\* base64.b64encode(data).decode()
RECURSIVE b64encode(_)
b64encode(data) ==
    IF Len(data) = 0 THEN ""
    ELSE IF Len(data) = 1
    THEN B64Char(data[1] \div 4) \o B64Char((data[1] % 4) * 16) \o "=="
    ELSE IF Len(data) = 2
    THEN B64Char(data[1] \div 4) \o B64Char((data[1] % 4) * 16 + data[2] \div 16)
         \o B64Char((data[2] % 16) * 4) \o "="
    ELSE B64Char(data[1] \div 4) \o B64Char((data[1] % 4) * 16 + data[2] \div 16)
         \o B64Char((data[2] % 16) * 4 + data[3] \div 64) \o B64Char(data[3] % 64)
         \o b64encode(SubSeq(data, 4, Len(data)))

\* base64.b64decode(text), not validating: characters outside the alphabet are passed
\* over, padding that completes a quad ends the data, an incomplete quad is an error
RECURSIVE a2b_base64(_, _, _, _, _, _)
a2b_base64(text, i, quad_pos, leftchar, pads, out) ==
    IF i > Len(text)
    THEN IF quad_pos # 0 THEN [ok |-> FALSE, bytes |-> << >>] ELSE [ok |-> TRUE, bytes |-> out]
    ELSE LET ch == CharAt(text, i)
             this_ch == B64Value(ch)
         IN IF ch = "="
            THEN IF quad_pos >= 2 /\ quad_pos + pads + 1 >= 4
                 THEN [ok |-> TRUE, bytes |-> out]
                 ELSE a2b_base64(text, i + 1, quad_pos, leftchar,
                                 IF quad_pos >= 2 THEN pads + 1 ELSE pads, out)
            ELSE IF this_ch = B64Invalid
            THEN a2b_base64(text, i + 1, quad_pos, leftchar, pads, out)
            ELSE IF quad_pos = 0
            THEN a2b_base64(text, i + 1, 1, this_ch, 0, out)
            ELSE IF quad_pos = 1
            THEN a2b_base64(text, i + 1, 2, this_ch % 16, 0,
                            Append(out, leftchar * 4 + this_ch \div 16))
            ELSE IF quad_pos = 2
            THEN a2b_base64(text, i + 1, 3, this_ch % 4, 0,
                            Append(out, leftchar * 16 + this_ch \div 4))
            ELSE a2b_base64(text, i + 1, 0, 0, 0, Append(out, leftchar * 64 + this_ch))

b64decode(text) == a2b_base64(text, 1, 0, 0, 0, << >>)

\* to_base64_bytes: the encoded str, or None where it raises ValueError
to_base64_bytes(data) ==
    IF isinstance(data, "bytes") THEN Some(b64encode(data.bytes))
    ELSE IF isinstance(data, "str") THEN Some(b64encode(str_encode(data.str)))
    ELSE None

\* how a call of the client ends: the exception it raised, the request it sent, the str
\* its body argument was encoded to (None if the encoding was not reached) and the request
\* dict it prepared (None if it was not reached)
HttpOutcome(raised, sent, body_b64, request) ==
    [raised |-> raised, sent |-> sent, body_b64 |-> body_b64, request |-> request]

\* convert() of a dict: a new dict with the same items
convert(d) == [k \in DOMAIN d |-> d[k]]

\* ensure_base64_body(d): the dict as the function leaves it, or None where it raises
ensure_base64_body(d) ==
    IF d # None /\ "body" \in DOMAIN d[1] /\ ~Falsy(d[1]["body"])
    THEN LET body == d[1]["body"]
         IN IF isinstance(body, "bytes")
            THEN Some([d[1] EXCEPT !["body"] = PyStr(to_base64_bytes(body)[1])])
            ELSE IF isinstance(body, "str")
            THEN IF b64decode(body.str).ok
                 THEN d
                 ELSE Some([d[1] EXCEPT !["body"] = PyStr(to_base64_bytes(body)[1])])
            ELSE IF body = PyNone
            THEN Some([d[1] EXCEPT !["body"] = PyStr("")])
            ELSE None
    ELSE d

PyDict(items) == [dict |-> items]

\* the enabled_rules _inspect puts in a config that has none
default_enabled_rules == PyList(<< [rule_name |-> "PROMPT_INJECTION"] >>)

\* validate_inspection_request: None when it returns, else the exception it raises.
\* VALID_HTTP_METHODS is no name of the module http_inspect (it is an attribute of
\* RequestHandler), so the test of the method raises NameError whenever it is reached,
\* and the tests of http_res after it are never reached
validate_inspection_request(request_dict) ==
    LET http_req == dict_get(request_dict, "http_req", PyNone)
    IN  IF /\ "config" \in DOMAIN request_dict
           /\ \/ Falsy(dict_get(request_dict["config"], "enabled_rules", PyNone))
              \/ ~isinstance(request_dict["config"]["enabled_rules"], "list")
        THEN Some("ValidationError")
        ELSE IF Falsy(http_req) THEN Some("ValidationError")
        ELSE IF ~isinstance(http_req, "dict") THEN Some("ValidationError")
        ELSE IF Falsy(dict_get(http_req.dict, "body", PyNone)) THEN Some("ValidationError")
        ELSE IF dict_get(http_req.dict, "method", None) \in {None, Some("")}
        THEN Some("ValidationError")
        ELSE Some("NameError")

\* _prepare_request_data: the parts of the request that are there, and the config
_prepare_request_data(http_req, http_res) ==
    (IF http_req # None THEN ("http_req" :> PyDict(convert(http_req[1]))) ELSE EmptyDict)
    @@ (IF http_res # None THEN ("http_res" :> PyDict(convert(http_res[1]))) ELSE EmptyDict)
    @@ ("config" :> [enabled_rules |-> default_enabled_rules])

\* _inspect: _prepare_request_data, validate_inspection_request, and the POST, whose
\* JSON encoding fails on a value of type bytes
_inspect(http_req, http_res, body_b64) ==
    LET request_dict == _prepare_request_data(http_req, http_res)
        invalid == validate_inspection_request(request_dict)
    IN  IF invalid # None
        THEN HttpOutcome(invalid, None, body_b64, Some(request_dict))
        ELSE IF \/ isinstance(http_req[1].body, "bytes")
                \/ http_res # None /\ isinstance(http_res[1].body, "bytes")
        THEN HttpOutcome(Some("InvalidJSONError"), None, body_b64, Some(request_dict))
        ELSE HttpOutcome(None, Some(request_dict), body_b64, Some(request_dict))

\* the body encoding of inspect_request and inspect_response: the encoded str, or None
\* where base64.b64encode raises TypeError
encode_body(body) ==
    IF body = PyNone THEN Some("")
    ELSE IF isinstance(body, "str") THEN Some(b64encode(str_encode(body.str)))
    ELSE IF isinstance(body, "bytes") THEN Some(b64encode(body.bytes))
    ELSE None

inspect_request(method, body) ==
    IF encode_body(body) = None
    THEN HttpOutcome(Some("TypeError"), None, None, None)
    ELSE _inspect(Some([method |-> Some(method), body |-> PyStr(encode_body(body)[1])]),
                  None, encode_body(body))

inspect_response(status_code, body, request_method, request_body) ==
    IF encode_body(body) = None
    THEN HttpOutcome(Some("TypeError"), None, None, None)
    ELSE LET http_res == Some([statusCode |-> status_code,
                               body |-> PyStr(encode_body(body)[1])])
             http_req ==
                 IF request_method # None \/ ~Falsy(request_body)
                 THEN Some([method |-> request_method,
                            body |-> PyStr(IF request_body = PyNone THEN ""
                                           ELSE to_base64_bytes(request_body)[1])])
                 ELSE None
         IN _inspect(http_req, http_res, encode_body(body))

inspect_http_raw(http_req) ==
    IF ensure_base64_body(Some(convert(http_req))) = None
    THEN HttpOutcome(Some("ValueError"), None, None, None)
    ELSE _inspect(Some(http_req), None, None)

\* bodies and calls of the client
ByteValues == {0, 104, 255}
BodyBytes == SeqsUpTo(ByteValues, MaxBodyLen)
BodyStrs == {"", "hi", "test", "hi there", "aGk=", "dGVzdA"}
Bodies ==
    { PyBytes(data) : data \in BodyBytes } \cup { PyStr(text) : text \in BodyStrs }
        \cup { PyNone, PyInt(12345) }
HttpInputs ==
    { [kind |-> "inspect_request", data |-> [method |-> "POST", body |-> body]] :
        body \in Bodies }
    \cup { [kind |-> "inspect_response",
            data |-> [status_code |-> 200, body |-> body,
                      request_method |-> request_method, request_body |-> request_body]] :
            body \in Bodies, request_method \in {None, Some("POST")},
            request_body \in {PyNone, PyBytes(<<104, 105>>)} }
    \cup { [kind |-> "inspect_http_raw",
            data |-> [http_req |-> [method |-> Some("POST"), body |-> body]]] :
            body \in Bodies }

\* request dicts given to validate_inspection_request
ValidateConfigs ==
    { EmptyDict, [enabled_rules |-> default_enabled_rules],
      [enabled_rules |-> PyList(<< >>)], [enabled_rules |-> PyStr("PII")] }
ValidateHttpReqs ==
    { PyNone, PyStr("not a dict") }
    \cup { PyDict(method @@ body) :
             method \in { EmptyDict, "method" :> Some("GET"), "method" :> Some("INVALID"),
                          "method" :> Some("") },
             body \in { EmptyDict, "body" :> PyStr(""), "body" :> PyStr("aGk=") } }
ValidateHttpRess ==
    { PyStr("not a dict") }
    \cup { PyDict(statusCode @@ ("body" :> body)) :
             statusCode \in { EmptyDict, "statusCode" :> PyInt(200) },
             body \in { PyStr(""), PyStr("aGk=") } }
ValidateInputs ==
    { [kind |-> "validate_inspection_request", data |-> config @@ http_req @@ http_res] :
        config \in { EmptyDict } \cup { "config" :> c : c \in ValidateConfigs },
        http_req \in { EmptyDict } \cup { "http_req" :> r : r \in ValidateHttpReqs },
        http_res \in { EmptyDict } \cup { "http_res" :> r : r \in ValidateHttpRess } }

-----------------------------------------------------------------------------
(* The HTTP clients of the SDK: BaseClient and RequestHandler *)

REQUEST_ID_HEADER == "x-aidefense-request-id"

\* what the endpoint does with a request: a response with a status code, its text and
\* the value the text holds as JSON (None if it is no JSON), or an exception of the
\* transport (requests.ConnectionError, requests.Timeout)
StatusCodes == {200, 302, 399, 400, 401, 403, 404, 429, 500, 503}
StatusStr ==
    (200 :> "200") @@ (302 :> "302") @@ (399 :> "399") @@ (400 :> "400") @@ (401 :> "401")
    @@ (403 :> "403") @@ (404 :> "404") @@ (429 :> "429") @@ (500 :> "500") @@ (503 :> "503")
ResponseBodies ==
    { [json |-> Some([message |-> "boom"]), text |-> "{\"message\": \"boom\"}"],
      [json |-> Some([detail |-> "boom"]), text |-> "{\"detail\": \"boom\"}"],
      [json |-> None, text |-> "Service Unavailable"],
      [json |-> None, text |-> ""] }
HttpResponse(status_code, body) ==
    [status_code |-> status_code, json |-> body.json, text |-> body.text]
HttpResponses == { HttpResponse(s, b) : s \in StatusCodes, b \in ResponseBodies }
TransportErrors == { [transport_error |-> "ConnectionError"], [transport_error |-> "Timeout"] }
EndpointReplies == HttpResponses \cup TransportErrors

\* the exceptions of the SDK
SDKError(message, status_code) ==
    [type |-> "SDKError", message |-> message, status_code |-> Some(status_code)]
ValidationError(message, status_code) ==
    [type |-> "ValidationError", message |-> message, status_code |-> status_code]
ApiError(message, status_code, request_id) ==
    [type |-> "ApiError", message |-> message, status_code |-> Some(status_code),
     request_id |-> request_id]

\* str.__or__: `text or default`
StrOr(text, default) == IF text = "" THEN default ELSE text

\* variant: every status >= 400 is an ApiError
_handle_error_response_api_error_only(response, request_id) ==
    ApiError("API error " \o StatusStr[response.status_code] \o ": "
                 \o StrOr(response.text, "Unknown error"),
             response.status_code, request_id)

\* _handle_error_response: the exception raised for a response of status >= 400
_handle_error_response(response, request_id) ==
    LET error_data ==
            IF response.json # None THEN response.json[1]
            ELSE [message |-> StrOr(response.text, "Unknown error")]
        error_message == dict_get(error_data, "message", "Unknown error")
    IN  IF response.status_code = 401
        THEN SDKError("Authentication error: " \o error_message, response.status_code)
        ELSE IF response.status_code = 400
        THEN ValidationError("Bad request: " \o error_message, Some(response.status_code))
        ELSE ApiError("API error " \o StatusStr[response.status_code] \o ": " \o error_message,
                      response.status_code, request_id)

\* how a call of request ends: the exception raised or the JSON returned, and the
\* requests handed to the session
RequestOutcome(raised, returned, sent) ==
    [raised |-> raised, returned |-> returned, sent |-> sent]

HttpRequest(method, url, headers, json_data) ==
    [method |-> method, url |-> url, headers |-> headers, json |-> json_data]

\* the reply of the endpoint as the caller of session.request sees it
after_session_request(reply, request_id, sent) ==
    IF "transport_error" \in DOMAIN reply
    THEN RequestOutcome(Some([type |-> reply.transport_error]), None, sent)
    ELSE IF reply.status_code >= 400
    THEN RequestOutcome(Some(_handle_error_response(reply, request_id)), None, sent)
    ELSE IF reply.json = None
    THEN RequestOutcome(Some([type |-> "JSONDecodeError"]), None, sent)
    ELSE RequestOutcome(None, reply.json, sent)

\* uuid.uuid4() of get_request_id
FreshUuid == "uuid4"
get_request_id == FreshUuid

\* BaseClient.request; request_id is None or Some(str)
BaseClient_request(method, url, request_id, headers, json_data, reply) ==
    LET id == IF request_id = None \/ request_id = Some("") THEN get_request_id
              ELSE request_id[1]
        all_headers == (REQUEST_ID_HEADER :> id) @@ headers
    IN  after_session_request(reply, Some(id),
                              << HttpRequest(method, url, all_headers, json_data) >>)

\* RequestHandler.request
RequestHandler_request(method, url, request_id, headers, json_data, reply) ==
    IF method \notin VALID_HTTP_METHODS
    THEN RequestOutcome(Some([type |-> "ValueError"]), None, << >>)
    ELSE LET defaults == ("User-Agent" :> "Cisco-AI-Defense-Python-SDK")
                         @@ ("Content-Type" :> "application/json")
             all_headers ==
                 (IF request_id = None \/ request_id = Some("") THEN EmptyDict
                  ELSE REQUEST_ID_HEADER :> request_id[1])
                 @@ headers @@ defaults
         IN  after_session_request(reply, request_id,
                                   << HttpRequest(method, url, all_headers, json_data) >>)

-----------------------------------------------------------------------------
(* The chat inspection client *)

\* Role.USER.value, Role.ASSISTANT.value, Role.SYSTEM.value
valid_roles == {"user", "assistant", "system"}

\* a Message object and a member of the enum Role
Message(role, content) == [dataclass |-> [role |-> role, content |-> content]]
Role(value) == [enum |-> value]

\* convert() of a value: a dataclass becomes a dict of its converted fields, a member
\* of an enum its value, anything else is returned as it is
convert_value(obj) ==
    IF isinstance(obj, "enum") THEN PyStr(obj.enum) ELSE obj
convert_object(obj) ==
    IF isinstance(obj, "dataclass")
    THEN PyDict([k \in DOMAIN obj.dataclass |-> convert_value(obj.dataclass[k])])
    ELSE convert_value(obj)

\* bool(text.strip()): some character of the text is no whitespace
Whitespace == {" ", "\t", "\n"}
strip_nonempty(text) == \E i \in 1..Len(text) : CharAt(text, i) \notin Whitespace

\* the first exception of the loop over the messages of validate_inspection_request,
\* None if it raises none
RECURSIVE chat_message_error(_)
chat_message_error(messages) ==
    IF messages = << >> THEN None
    ELSE LET msg == Head(messages)
         IN  IF ~isinstance(msg, "dict")
             THEN Some(ValidationError("Each message must be a dict.", None))
             ELSE IF dict_get(msg.dict, "role", PyNone)
                        \notin { PyStr(role) : role \in valid_roles }
             THEN Some(ValidationError("Message role must be one of the valid roles.", None))
             ELSE IF \/ Falsy(dict_get(msg.dict, "content", PyNone))
                     \/ ~isinstance(msg.dict.content, "str")
             THEN Some(ValidationError("Each message must have non-empty string content.",
                                       None))
             ELSE chat_message_error(Tail(messages))

\* has_prompt or has_completion after the loop
has_prompt_or_completion(messages) ==
    \E i \in DOMAIN messages :
        /\ messages[i].dict.role \in { PyStr("user"), PyStr("assistant") }
        /\ strip_nonempty(messages[i].dict.content.str)

\* variant: the validation without the test for a prompt or completion
chat_validate_inspection_request_any_role(request_dict) ==
    LET messages == dict_get(request_dict, "messages", PyNone)
    IN  IF ~isinstance(messages, "list") \/ Falsy(messages)
        THEN Some(ValidationError("'messages' must be a non-empty list.", None))
        ELSE chat_message_error(messages.list)

\* ChatInspectionClient.validate_inspection_request: None when it returns, else the
\* exception it raises
chat_validate_inspection_request(request_dict) ==
    LET messages == dict_get(request_dict, "messages", PyNone)
    IN  IF ~isinstance(messages, "list") \/ Falsy(messages)
        THEN Some(ValidationError("'messages' must be a non-empty list.", None))
        ELSE IF chat_message_error(messages.list) # None
        THEN chat_message_error(messages.list)
        ELSE IF ~has_prompt_or_completion(messages.list)
        THEN Some(ValidationError("At least one message must be a prompt or completion.",
                                  None))
        ELSE IF /\ "metadata" \in DOMAIN request_dict
                /\ request_dict["metadata"] # PyNone
                /\ ~isinstance(request_dict["metadata"], "dict")
        THEN Some(ValidationError("'metadata' must be a dict if provided.", None))
        ELSE IF /\ "config" \in DOMAIN request_dict
                /\ request_dict["config"] # PyNone
                /\ ~isinstance(request_dict["config"], "dict")
        THEN Some(ValidationError("'config' must be a dict if provided.", None))
        ELSE None

\* ChatInspectionClient._prepare_request_data
chat_prepare_request_data(messages, metadata, config) ==
    ("messages" :> PyList([i \in DOMAIN messages.list |-> convert_object(messages.list[i])]))
    @@ (IF Falsy(metadata) THEN EmptyDict ELSE "metadata" :> convert_object(metadata))
    @@ (IF Falsy(config) THEN EmptyDict ELSE "config" :> convert_object(config))

ChatEndpoint == "/api/v1/inspect/chat"

\* ChatInspectionClient._inspect: the test of messages, _prepare_request_data,
\* validate_inspection_request, the POST, and process_response, which no class of the
\* client defines
chat_inspect(messages, metadata, config, request_id, reply) ==
    IF ~isinstance(messages, "list") \/ Falsy(messages)
    THEN RequestOutcome(
             Some(ValidationError("'messages' must be a non-empty list of Message objects.",
                                  None)),
             None, << >>)
    ELSE LET request_dict == chat_prepare_request_data(messages, metadata, config)
             invalid == chat_validate_inspection_request(request_dict)
             result == BaseClient_request("POST", ChatEndpoint, request_id,
                                          "Content-Type" :> "application/json",
                                          request_dict, reply)
         IN  IF invalid # None THEN RequestOutcome(invalid, None, << >>)
             ELSE IF result.raised # None THEN result
             ELSE RequestOutcome(Some([type |-> "AttributeError"]), None, result.sent)

\* calls of the chat inspection client
ChatContents == { PyStr(""), PyStr("hi"), PyStr(" \t"), PyInt(5) }
ChatRoles == { Role("user"), Role("assistant"), Role("system"), PyStr("invalid_role") }
ChatMessages ==
    { Message(role, content) : role \in ChatRoles, content \in ChatContents }
    \cup { PyStr("not a message") }
ChatFirstMessages ==
    { Message(Role("system"), PyStr("hi")), Message(Role("user"), PyStr(" \t")) }
ChatMessageLists ==
    { PyStr("not a list"), PyList(<< >>) }
    \cup { PyList(<< m >>) : m \in ChatMessages }
    \cup { PyList(<< first, m >>) : first \in ChatFirstMessages, m \in ChatMessages }
ChatMetadatas == { PyNone, [dataclass |-> [user |-> PyStr("alice")]], PyStr("not a dict") }
ChatConfigs == { PyNone, [dataclass |-> [enabled_rules |-> PyList(<< >>)]], PyStr("not a dict") }
ChatInputs ==
    { [kind |-> "chat_inspect",
       data |-> [messages |-> messages, metadata |-> metadata, config |-> config,
                 request_id |-> None]] :
        messages \in ChatMessageLists, metadata \in ChatMetadatas, config \in ChatConfigs }

-----------------------------------------------------------------------------
(* AsyncRequestHandler: the session of the handler and the tasks using it *)

Tasks == 1..MaxTasks

\* aiohttp.ClientSession(connector=self._connector, ...): the k-th session of the handler
ClientSession(k) ==
    [id |-> k, closed |-> FALSE,
     headers |-> ("User-Agent" :> "Cisco-AI-Defense-Python-SDK")
                 @@ ("Content-Type" :> "application/json")]

\* a task outside ensure_session and close ("idle"), before `async with
\* self._session_lock` ("acquire"), holding the lock ("create"), or in close() between
\* the two awaits ("close_connector"); seen is the session the task found in
\* handler._session when its last ensure_session returned, and how many times a
\* session of the handler had been closed by then
IdleTask == [pc |-> "idle", calls |-> 0, seen |-> None]

\* the handler after __init__
NoSessionYet ==
    /\ _session = None
    /\ _session_lock = None
    /\ _connector = [closed |-> FALSE]
    /\ tasks = [t \in Tasks |-> IdleTask]
    /\ sessions = 0
    /\ closes = 0

\* `self._session is not None and not self._session.closed`
session_open == _session # None /\ ~_session[1].closed

\* _raise_appropriate_exception: the exception for a status >= 400 and its message
_raise_appropriate_exception(status, error_message, request_id) ==
    IF status = 401 THEN SDKError("Authentication error: " \o error_message, status)
    ELSE IF status = 400 THEN ValidationError("Bad request: " \o error_message, Some(status))
    ELSE ApiError("API error " \o StatusStr[status] \o ": " \o error_message, status, request_id)

\* AsyncRequestHandler._handle_error_response
async_handle_error_response(response, request_id) ==
    LET error_data ==
            IF response.json # None THEN response.json[1]
            ELSE [message |-> StrOr(response.text, "Unknown error")]
    IN  _raise_appropriate_exception(response.status_code,
                                     dict_get(error_data, "message", "Unknown error"),
                                     request_id)

\* the headers of the session after request() has put the caller's headers and the
\* request id into them
session_headers(session, request_id, headers) ==
    (REQUEST_ID_HEADER :>
        (IF request_id = None \/ request_id = Some("") THEN get_request_id ELSE request_id[1]))
    @@ headers @@ session.headers

\* AsyncRequestHandler.request with the session it finds in the handler (None or a
\* session) and the replies of the endpoint to its attempts, the first reply first;
\* aiohttp sends the headers given over those of the session
AsyncRequestHandler_request(session, method, url, request_id, headers, json_data, replies) ==
    IF session = None
    THEN RequestOutcome(Some([type |-> "RuntimeError"]), None, << >>)
    ELSE IF method \notin VALID_HTTP_METHODS
    THEN RequestOutcome(Some([type |-> "ValueError"]), None, << >>)
    ELSE LET all_headers == session_headers(session[1], request_id, headers)
             id == all_headers[REQUEST_ID_HEADER]
             sent == << HttpRequest(method, url, headers @@ all_headers, json_data) >>
             reply == replies[1]
         IN  IF "transport_error" \in DOMAIN reply
             THEN RequestOutcome(Some([type |-> reply.transport_error]), None, sent)
             ELSE IF reply.status_code >= 400
             THEN RequestOutcome(Some(async_handle_error_response(reply, Some(id))), None, sent)
             ELSE IF reply.json = None
             THEN RequestOutcome(Some([type |-> "ContentTypeError"]), None, sent)
             ELSE RequestOutcome(None, reply.json, sent)

\* calls of request on the three clients
RequestIds == { None, Some("req-1") }
RequestInputs ==
    { [kind |-> client, data |-> [method |-> method, request_id |-> request_id,
                                  headers |-> headers]] :
        client \in { "BaseClient.request", "RequestHandler.request",
                     "AsyncRequestHandler.request" },
        method \in { "POST", "TRACE" }, request_id \in RequestIds,
        headers \in { EmptyDict, "X-Custom-Header" :> "value" } }

-----------------------------------------------------------------------------
(* Requests of the AsyncRequestHandler whose first attempts fail *)

\* retry_config["status_forcelist"] of the default configuration
status_forcelist == {429, 500, 502, 503, 504}

\* retry_config["total"] of the handler's configuration
RetryTotals == 0..MaxRetryTotal

\* the replies of the endpoint to the attempts of one request, as many as the
\* configuration with the largest total allows attempts
RetryResponse(status_code) ==
    HttpResponse(status_code,
                 [json |-> Some([message |-> "boom"]), text |-> "{\"message\": \"boom\"}"])
RetryReplies ==
    { RetryResponse(s) : s \in {200, 400, 401, 404, 429, 503} } \cup TransportErrors
RetryInputs ==
    { [kind |-> "request_with_retries", data |-> [total |-> total, replies |-> replies]] :
        total \in RetryTotals, replies \in [1..(MaxRetryTotal + 1) -> RetryReplies] }

-----------------------------------------------------------------------------
(* Actions *)

Idle == <<input, output, PatchVars, InspectorVars, HandlerVars>>

\* user code, or a wrapped provider function, calls the patched botocore dispatcher
BedrockCall(operation_name, messages) ==
    /\ CanEnter
    /\ Apply(_wrap_make_api_call(AtEntry, operation_name, messages))
    /\ UNCHANGED <<cfg, guardLog, Idle>>

\* user code, or a wrapped provider function, calls the patched ClientSession.call_tool
McpCallTool ==
    /\ CanEnter
    /\ Apply(_wrap_call_tool(AtEntry))
    /\ UNCHANGED <<cfg, guardLog, Idle>>

Inspecting(kind) ==
    /\ stack # <<>>
    /\ Top.kind = kind
    /\ Top.pc \in {"pre", "post"}

\* the chat inspection endpoint answers 200 with response_json
LLMAttemptSucceeds(response_json) ==
    /\ Inspecting("bedrock")
    /\ Apply(llm_attempt_succeeds(Here, Top, response_json))
    /\ guardLog' = "none"
    /\ UNCHANGED <<cfg, Idle>>

\* a request to the chat inspection endpoint fails
LLMAttemptFails(error) ==
    /\ Inspecting("bedrock")
    /\ Apply(llm_attempt_fails(Here, Top, error))
    /\ guardLog' = "none"
    /\ UNCHANGED <<cfg, Idle>>

\* the inspection code of the Bedrock wrapper fails outside the inspector's own handling
BedrockInspectionRaises ==
    /\ Inspecting("bedrock")
    /\ Top.attempt = 0
    /\ Apply(bedrock_inspection_raises(Here, Top, PatcherError))
    /\ guardLog' = "none"
    /\ UNCHANGED <<cfg, Idle>>

\* the MCP inspection endpoint answers 200 with response_json
MCPAttemptSucceeds(response_json) ==
    /\ Inspecting("mcp")
    /\ Apply(mcp_attempt_succeeds(Here, Top, response_json))
    /\ guardLog' = "none"
    /\ UNCHANGED <<cfg, Idle>>

\* a request to the MCP inspection endpoint fails
MCPAttemptFails(error) ==
    /\ Inspecting("mcp")
    /\ Apply(mcp_attempt_fails(Here, Top, error))
    /\ guardLog' = "none"
    /\ UNCHANGED <<cfg, Idle>>

\* the inspection code of the MCP wrapper fails outside the inspector's own handling
McpInspectionRaises ==
    /\ Inspecting("mcp")
    /\ Top.attempt = 0
    /\ Apply(mcp_inspection_raises(Here, Top, PatcherError))
    /\ guardLog' = "none"
    /\ UNCHANGED <<cfg, Idle>>

\* the Bedrock gateway request ends
GatewayResponds(outcome) ==
    /\ stack # <<>>
    /\ Top.pc = "gateway"
    /\ Apply(_handle_bedrock_gateway_call(Here, Top, outcome))
    /\ guardLog' = "none"
    /\ UNCHANGED <<cfg, Idle>>

\* the wrapped provider function returns
WrappedReturns(content) ==
    /\ stack # <<>>
    /\ Top.pc = "wrapped"
    /\ Apply(wrapped_returns(Here, Top, content))
    /\ guardLog' = "none"
    /\ UNCHANGED <<cfg, Idle>>

\* the wrapped provider function raises
WrappedRaises ==
    /\ stack # <<>>
    /\ Top.pc = "wrapped"
    /\ Apply(wrapped_raises(Here, Top))
    /\ guardLog' = "none"
    /\ UNCHANGED <<cfg, Idle>>

\* user code enters a skip guard
EnterSkipGuard(llm, mcp) ==
    /\ stack = <<>>
    /\ ~ctx.skip_llm /\ ~ctx.skip_mcp
    /\ llm \/ mcp
    /\ ctx' = [ctx EXCEPT !.skip_llm = llm, !.skip_mcp = mcp]
    /\ guardLog' = "none"
    /\ last' = NoLast
    /\ UNCHANGED <<cfg, stack, recorded, Idle>>

\* user code leaves the skip guard: at the end of its block, or by an exception a call raised in it
LeaveSkipGuard(how) ==
    /\ stack = <<>>
    /\ ctx.skip_llm \/ ctx.skip_mcp
    /\ how = "exception" => last.outcome = "raise"
    /\ ctx' = [ctx EXCEPT !.skip_llm = FALSE, !.skip_mcp = FALSE]
    /\ guardLog' = how
    /\ last' = NoLast
    /\ UNCHANGED <<cfg, stack, recorded, Idle>>

\* user code goes on in a new thread, whose context is empty
NewThread ==
    /\ stack = <<>>
    /\ ~ctx.skip_llm /\ ~ctx.skip_mcp
    /\ ctx # EmptyContext
    /\ ctx' = EmptyContext
    /\ last' = NoLast
    /\ guardLog' = "none"
    /\ UNCHANGED <<cfg, stack, recorded, Idle>>

Init ==
    /\ cfg \in Configs
    /\ ctx = EmptyContext
    /\ stack = <<>>
    /\ last = NoLast
    /\ guardLog = "none"
    /\ recorded = NoneRecorded
    /\ input = NoInput
    /\ output = None
    /\ AllPatched
    /\ NoInspectorYet
    /\ NoSessionYet

Next ==
    \/ \E op \in IF stack = <<>> THEN Operations ELSE NestedOperations, messages \in BOOLEAN :
           BedrockCall(op, messages)
    \/ McpCallTool
    \/ \E r \in LLMWireResponses : LLMAttemptSucceeds(r)
    \/ \E e \in AttemptErrors : LLMAttemptFails(e)
    \/ BedrockInspectionRaises
    \/ \E r \in MCPWireResponses : MCPAttemptSucceeds(r)
    \/ \E e \in AttemptErrors : MCPAttemptFails(e)
    \/ McpInspectionRaises
    \/ \E o \in GatewayOutcomes : GatewayResponds(o)
    \/ \E content \in BOOLEAN : WrappedReturns(content)
    \/ WrappedRaises
    \/ \E llm \in BOOLEAN, mcp \in BOOLEAN : EnterSkipGuard(llm, mcp)
    \/ \E how \in {"normal", "exception"} : LeaveSkipGuard(how)
    \/ NewThread

Spec == Init /\ [][Next]_vars

-----------------------------------------------------------------------------
(* SpecParse: the response parsers applied to every inspection-service response *)

ParseLLMResponse ==
    /\ input.kind = "llm"
    /\ output = None
    /\ output' = Some(_parse_response(input.data))
    /\ UNCHANGED <<RuntimeVars, PatchVars, InspectorVars, HandlerVars, input>>

ParseMCPResponse ==
    /\ input.kind = "mcp"
    /\ output = None
    /\ output' = Some(_parse_mcp_response(input.data))
    /\ UNCHANGED <<RuntimeVars, PatchVars, InspectorVars, HandlerVars, input>>

NextResponse ==
    /\ output # None
    /\ input' \in ParseInputs
    /\ output' = None
    /\ UNCHANGED <<RuntimeVars, PatchVars, InspectorVars, HandlerVars>>

InitParse ==
    /\ cfg = DefaultLLMConfig @@ DefaultMCPConfig
    /\ ctx = EmptyContext
    /\ stack = <<>>
    /\ last = NoLast
    /\ guardLog = "none"
    /\ recorded = NoneRecorded
    /\ input \in ParseInputs
    /\ output = None
    /\ AllPatched
    /\ NoInspectorYet
    /\ NoSessionYet

NextParse == ParseLLMResponse \/ ParseMCPResponse \/ NextResponse

SpecParse == InitParse /\ [][NextParse]_vars

-----------------------------------------------------------------------------
(* SpecReasons: the parsers applied to responses that differ in where their
   reasons can come from *)

\* the top-level reasons list of a response: absent, empty or given
TopLevelReasons == { <<>>, <<"policy violation">> }

ReasonLLMResponses ==
    { Field(ha, "action", a) @@ Field(hr, "reasons", rs) @@ Field(hu, "rules", ru)
        @@ Field(hp, "processed_rules", pr) :
        ha \in BOOLEAN, a \in {s_Block, s_Allow},
        hr \in BOOLEAN, rs \in TopLevelReasons,
        hu \in BOOLEAN, ru \in RuleLists, hp \in BOOLEAN, pr \in RuleLists }

ReasonMCPResults ==
    { Field(ha, "action", a) @@ Field(hi, "is_safe", i) @@ Field(hu, "rules", ru)
        @@ Field(he, "explanation", "tool poisoning")
        @@ Field(ht, "attack_technique", t) @@ Field(hs, "severity", "HIGH") :
        ha \in BOOLEAN, a \in {s_Allow, s_Block},
        hi \in BOOLEAN, i \in {"true", "false"},
        hu \in BOOLEAN, ru \in RuleLists, he \in BOOLEAN,
        ht \in BOOLEAN, t \in {"NONE_ATTACK_TECHNIQUE", "TOOL_POISONING"},
        hs \in BOOLEAN }

ReasonInputs ==
    { [kind |-> "llm", data |-> r] : r \in ReasonLLMResponses }
      \cup { [kind |-> "mcp", data |-> r] : r \in ReasonMCPResults }
      \cup { [kind |-> "mcp", data |-> [jsonrpc |-> "2.0", result |-> r]] :
                r \in ReasonMCPResults }

InitReasons ==
    /\ cfg = DefaultLLMConfig @@ DefaultMCPConfig
    /\ ctx = EmptyContext
    /\ stack = <<>>
    /\ last = NoLast
    /\ guardLog = "none"
    /\ recorded = NoneRecorded
    /\ input \in ReasonInputs
    /\ output = None
    /\ AllPatched
    /\ NoInspectorYet
    /\ NoSessionYet

NextReasons == ParseLLMResponse \/ ParseMCPResponse

SpecReasons == InitReasons /\ [][NextReasons]_vars

-----------------------------------------------------------------------------
(* SpecPatch: the patch functions called again and again, whatever they meet *)

\* the runtime at rest
RuntimeAtRest ==
    /\ cfg = DefaultLLMConfig @@ DefaultMCPConfig
    /\ ctx = EmptyContext
    /\ stack = <<>>
    /\ last = NoLast
    /\ guardLog = "none"
    /\ recorded = NoneRecorded

PatchStep(name, importable, wrap_raises, o) ==
    /\ Len(patchLog) < MaxPatchCalls
    /\ registry' = o.registry
    /\ wrappers' = o.wrappers
    /\ patchLog' = Append(patchLog,
          [ name |-> name, before |-> is_patched(registry, name), importable |-> importable,
            wrap_raises |-> wrap_raises, returned |-> o.returned, wrapped |-> o.wrapped ])
    /\ UNCHANGED <<RuntimeVars, InspectorVars, HandlerVars, input, output>>

PatchBedrock(importable, wrap_raises) ==
    PatchStep("bedrock", importable, wrap_raises, patch_bedrock(importable, wrap_raises))

PatchMcp(importable, wrap_raises, streamable_raises) ==
    PatchStep("mcp", importable, wrap_raises, patch_mcp(importable, wrap_raises, streamable_raises))

InitPatch ==
    /\ RuntimeAtRest
    /\ input = NoInput
    /\ output = None
    /\ registry = EmptyDict
    /\ wrappers = Unwrapped
    /\ patchLog = <<>>
    /\ NoInspectorYet
    /\ NoSessionYet

NextPatch ==
    \/ \E importable \in BOOLEAN, wrap_raises \in BOOLEAN : PatchBedrock(importable, wrap_raises)
    \/ \E importable \in BOOLEAN, wrap_raises \in BOOLEAN, streamable_raises \in BOOLEAN :
           PatchMcp(importable, wrap_raises, streamable_raises)

SpecPatch == InitPatch /\ [][NextPatch]_vars

-----------------------------------------------------------------------------
(* SpecPatchThreads: several threads call the patch functions at the same time;
   a thread can be suspended between is_patched() and the wrapping *)

\* thread t enters patch function `name` and tests is_patched(name)
PatchTest(t, name) ==
    /\ threads[t].pc = "idle"
    /\ Len(patchLog) + Cardinality({ u \in Threads : threads[u].pc # "idle" }) < MaxPatchCalls
    /\ IF is_patched(registry, name)
       THEN /\ patchLog' = Append(patchLog,
                  [ name |-> name, before |-> TRUE, importable |-> TRUE,
                    wrap_raises |-> FALSE, returned |-> TRUE, wrapped |-> FALSE ])
            /\ UNCHANGED threads
       ELSE /\ threads' = [threads EXCEPT ![t].pc = name]
            /\ UNCHANGED patchLog
    /\ UNCHANGED <<RuntimeVars, registry, wrappers, _api_inspector, _inspector_lock, issued,
                   HandlerVars, input, output>>

\* thread t, past the test, imports the library, wraps the entry point and marks it
PatchWrap(t, wrap_raises, streamable_raises) ==
    /\ threads[t].pc \in PatchNames
    /\ LET name == threads[t].pc
           o == IF name = "bedrock" THEN patch_bedrock_wrap(TRUE, wrap_raises)
                ELSE patch_mcp_wrap(TRUE, wrap_raises, streamable_raises)
       IN  /\ registry' = o.registry
           /\ wrappers' = o.wrappers
           /\ patchLog' = Append(patchLog,
                  [ name |-> name, before |-> FALSE, importable |-> TRUE,
                    wrap_raises |-> wrap_raises, returned |-> o.returned,
                    wrapped |-> o.wrapped ])
    /\ threads' = [threads EXCEPT ![t].pc = "idle", ![t].calls = @ + 1]
    /\ UNCHANGED <<RuntimeVars, _api_inspector, _inspector_lock, issued, HandlerVars,
                   input, output>>

NextPatchThreads ==
    \/ \E t \in Threads, name \in PatchNames : PatchTest(t, name)
    \/ \E t \in Threads, wrap_raises \in BOOLEAN, streamable_raises \in BOOLEAN :
           PatchWrap(t, wrap_raises, streamable_raises)

SpecPatchThreads == InitPatch /\ [][NextPatchThreads]_vars

-----------------------------------------------------------------------------
(* SpecStream: the fake stream of every gateway response, consumed event by event *)

\* __next__ / __anext__: the next event of the generator
StreamNext ==
    /\ input.kind = "stream"
    /\ ~output.stopped
    /\ Len(output.events) < Len(_generate_events(input.data))
    /\ output' = [output EXCEPT
                    !.events = Append(@, _generate_events(input.data)[Len(@) + 1])]
    /\ UNCHANGED <<RuntimeVars, PatchVars, InspectorVars, HandlerVars, input>>

\* __next__ on the exhausted generator: StopIteration
StreamStop ==
    /\ input.kind = "stream"
    /\ ~output.stopped
    /\ Len(output.events) = Len(_generate_events(input.data))
    /\ output' = [output EXCEPT !.stopped = TRUE]
    /\ UNCHANGED <<RuntimeVars, PatchVars, InspectorVars, HandlerVars, input>>

\* _handle_bedrock_gateway_call_streaming: a new wrapper around the next response
StreamOpen ==
    /\ output.stopped
    /\ input' \in StreamInputs
    /\ output' = NewStream
    /\ UNCHANGED <<RuntimeVars, PatchVars, InspectorVars, HandlerVars>>

InitStream ==
    /\ RuntimeAtRest
    /\ AllPatched
    /\ NoInspectorYet
    /\ NoSessionYet
    /\ input \in StreamInputs
    /\ output = NewStream

NextStream == StreamNext \/ StreamStop \/ StreamOpen

SpecStream == InitStream /\ [][NextStream]_vars

-----------------------------------------------------------------------------
(* SpecIds: threads building JSON-RPC messages with the shared MCPInspector *)

IdsIdle == <<RuntimeVars, PatchVars, HandlerVars, input, output>>

\* _get_api_inspector: the unlocked test `if _api_inspector is None`
_get_api_inspector(t) ==
    /\ threads[t].pc = "idle"
    /\ threads[t].calls < MaxIdCalls
    /\ threads' = [threads EXCEPT ![t].pc = IF _api_inspector = None THEN "acquire" ELSE "load"]
    /\ UNCHANGED <<_api_inspector, _inspector_lock, issued, IdsIdle>>

\* with _inspector_lock:
AcquireInspectorLock(t) ==
    /\ threads[t].pc = "acquire"
    /\ _inspector_lock = None
    /\ _inspector_lock' = Some(t)
    /\ threads' = [threads EXCEPT ![t].pc = "create"]
    /\ UNCHANGED <<_api_inspector, issued, IdsIdle>>

\* the second test under the lock, MCPInspector(...), and the release of the lock
CreateInspector(t) ==
    /\ threads[t].pc = "create"
    /\ _inspector_lock = Some(t)
    /\ _api_inspector' = IF _api_inspector = None THEN Some(MCPInspector_init) ELSE _api_inspector
    /\ _inspector_lock' = None
    /\ threads' = [threads EXCEPT ![t].pc = "load"]
    /\ UNCHANGED <<issued, IdsIdle>>

\* _get_next_id: `self._request_id_counter += 1` reads the attribute ...
LoadCounter(t) ==
    /\ threads[t].pc = "load"
    /\ threads' = [threads EXCEPT ![t].pc = "store",
                                  ![t].value = _api_inspector[1]._request_id_counter]
    /\ UNCHANGED <<_api_inspector, _inspector_lock, issued, IdsIdle>>

\* ... and writes the sum back
StoreCounter(t) ==
    /\ threads[t].pc = "store"
    /\ _api_inspector' = Some([_api_inspector[1] EXCEPT !._request_id_counter = threads[t].value + 1])
    /\ threads' = [threads EXCEPT ![t].pc = "return"]
    /\ UNCHANGED <<_inspector_lock, issued, IdsIdle>>

\* `return self._request_id_counter`: the id of the message _build_request_message or
\* _build_response_message returns
ReturnId(t) ==
    /\ threads[t].pc = "return"
    /\ issued' = Append(issued, _api_inspector[1]._request_id_counter)
    /\ threads' = [threads EXCEPT ![t].pc = "idle", ![t].calls = @ + 1]
    /\ UNCHANGED <<_api_inspector, _inspector_lock, IdsIdle>>

InitIds ==
    /\ RuntimeAtRest
    /\ AllPatched
    /\ NoInspectorYet
    /\ NoSessionYet
    /\ input = NoInput
    /\ output = None

NextIds ==
    \E t \in Threads :
        \/ _get_api_inspector(t)
        \/ AcquireInspectorLock(t)
        \/ CreateInspector(t)
        \/ LoadCounter(t)
        \/ StoreCounter(t)
        \/ ReturnId(t)

SpecIds == InitIds /\ [][NextIds]_vars

-----------------------------------------------------------------------------
(* SpecNormalize: the normalization applied to every request *)

\* _wrap_make_api_call: operation_name in {"Converse", "ConverseStream"}
NormalizeConverse ==
    /\ input.kind = "converse"
    /\ output = None
    /\ output' = Some(_parse_converse_messages(input.data))
    /\ UNCHANGED <<RuntimeVars, PatchVars, InspectorVars, HandlerVars, input>>

\* _wrap_make_api_call: InvokeModel and InvokeModelWithResponseStream
NormalizeInvoke ==
    /\ input.kind = "invoke"
    /\ output = None
    /\ output' = Some(_parse_bedrock_messages(input.data))
    /\ UNCHANGED <<RuntimeVars, PatchVars, InspectorVars, HandlerVars, input>>

NextRequest ==
    /\ output # None
    /\ input' \in NormalizeInputs
    /\ output' = None
    /\ UNCHANGED <<RuntimeVars, PatchVars, InspectorVars, HandlerVars>>

InitNormalize ==
    /\ RuntimeAtRest
    /\ AllPatched
    /\ NoInspectorYet
    /\ NoSessionYet
    /\ input \in NormalizeInputs
    /\ output = None

NextNormalize == NormalizeConverse \/ NormalizeInvoke \/ NextRequest

SpecNormalize == InitNormalize /\ [][NextNormalize]_vars

-----------------------------------------------------------------------------
(* SpecHttp: the HTTP inspection client called with every body *)

InspectRequest ==
    /\ input.kind = "inspect_request"
    /\ output = None
    /\ output' = Some(inspect_request(input.data.method, input.data.body))
    /\ UNCHANGED <<RuntimeVars, PatchVars, InspectorVars, HandlerVars, input>>

InspectResponse ==
    /\ input.kind = "inspect_response"
    /\ output = None
    /\ output' = Some(inspect_response(input.data.status_code, input.data.body,
                                       input.data.request_method, input.data.request_body))
    /\ UNCHANGED <<RuntimeVars, PatchVars, InspectorVars, HandlerVars, input>>

InspectHttpRaw ==
    /\ input.kind = "inspect_http_raw"
    /\ output = None
    /\ output' = Some(inspect_http_raw(input.data.http_req))
    /\ UNCHANGED <<RuntimeVars, PatchVars, InspectorVars, HandlerVars, input>>

NextHttpCall ==
    /\ output # None
    /\ input' \in HttpInputs
    /\ output' = None
    /\ UNCHANGED <<RuntimeVars, PatchVars, InspectorVars, HandlerVars>>

InitHttp ==
    /\ RuntimeAtRest
    /\ AllPatched
    /\ NoInspectorYet
    /\ NoSessionYet
    /\ input \in HttpInputs
    /\ output = None

NextHttp == InspectRequest \/ InspectResponse \/ InspectHttpRaw \/ NextHttpCall

SpecHttp == InitHttp /\ [][NextHttp]_vars

-----------------------------------------------------------------------------
\* Specification SpecValidate: request dicts given to validate_inspection_request.

ValidateInspectionRequest ==
    /\ input.kind = "validate_inspection_request"
    /\ output = None
    /\ output' = Some([raised |-> validate_inspection_request(input.data)])
    /\ UNCHANGED <<RuntimeVars, PatchVars, InspectorVars, HandlerVars, input>>

NextValidateCall ==
    /\ output # None
    /\ input' \in ValidateInputs
    /\ output' = None
    /\ UNCHANGED <<RuntimeVars, PatchVars, InspectorVars, HandlerVars>>

InitValidate ==
    /\ RuntimeAtRest
    /\ AllPatched
    /\ NoInspectorYet
    /\ NoSessionYet
    /\ input \in ValidateInputs
    /\ output = None

NextValidate == ValidateInspectionRequest \/ NextValidateCall

SpecValidate == InitValidate /\ [][NextValidate]_vars

-----------------------------------------------------------------------------
\* Specification SpecChat: calls of the chat inspection client, each answered by the
\* endpoint with some response or some failure of the transport.

ChatInspect ==
    /\ input.kind = "chat_inspect"
    /\ output = None
    /\ \E reply \in EndpointReplies :
           output' = Some(chat_inspect(input.data.messages, input.data.metadata,
                                       input.data.config, input.data.request_id, reply))
    /\ UNCHANGED <<RuntimeVars, PatchVars, InspectorVars, HandlerVars, input>>

NextChatCall ==
    /\ output # None
    /\ input' \in ChatInputs
    /\ output' = None
    /\ UNCHANGED <<RuntimeVars, PatchVars, InspectorVars, HandlerVars>>

InitChat ==
    /\ RuntimeAtRest
    /\ AllPatched
    /\ NoInspectorYet
    /\ NoSessionYet
    /\ input \in ChatInputs
    /\ output = None

NextChat == ChatInspect \/ NextChatCall

SpecChat == InitChat /\ [][NextChat]_vars

-----------------------------------------------------------------------------
\* Specification SpecSession: asyncio tasks calling ensure_session and close on one
\* AsyncRequestHandler, and closing its session directly. A task gives way to another
\* only at an await.

SessionIdle == <<RuntimeVars, PatchVars, InspectorVars, input, output>>

\* ensure_session up to its first await: the test without the lock, and the return if
\* the session is open
ensure_session(t) ==
    /\ tasks[t].pc = "idle"
    /\ tasks[t].calls < MaxEnsureCalls
    /\ tasks' = [tasks EXCEPT ![t] =
                    IF session_open
                    THEN [pc |-> "idle", calls |-> @.calls + 1, seen |-> Some([id |-> _session[1].id, closes |-> closes])]
                    ELSE [@ EXCEPT !.pc = "acquire"]]
    /\ UNCHANGED <<_session, _session_lock, _connector, sessions, closes, SessionIdle>>

\* async with self._session_lock
AcquireSessionLock(t) ==
    /\ tasks[t].pc = "acquire"
    /\ _session_lock = None
    /\ _session_lock' = Some(t)
    /\ tasks' = [tasks EXCEPT ![t].pc = "create"]
    /\ UNCHANGED <<_session, _connector, sessions, closes, SessionIdle>>

\* variant: the body of the lock without the second test
CreateSessionUnchecked(t) ==
    /\ tasks[t].pc = "create"
    /\ _session_lock = Some(t)
    /\ _session' = Some(ClientSession(sessions + 1))
    /\ sessions' = sessions + 1
    /\ _session_lock' = None
    /\ tasks' = [tasks EXCEPT ![t] =
                    [pc |-> "idle", calls |-> @.calls + 1, seen |-> Some([id |-> sessions + 1, closes |-> closes])]]
    /\ UNCHANGED <<_connector, closes, SessionIdle>>

\* the second test under the lock, aiohttp.ClientSession(...), the release of the lock
\* and the return
CreateSession(t) ==
    /\ tasks[t].pc = "create"
    /\ _session_lock = Some(t)
    /\ IF ~session_open
       THEN /\ _session' = Some(ClientSession(sessions + 1))
            /\ sessions' = sessions + 1
       ELSE UNCHANGED <<_session, sessions>>
    /\ _session_lock' = None
    /\ tasks' = [tasks EXCEPT ![t] =
                    [pc |-> "idle", calls |-> @.calls + 1, seen |-> Some([id |-> _session'[1].id, closes |-> closes])]]
    /\ UNCHANGED <<_connector, closes, SessionIdle>>

\* await handler._session.close(), by a user of the handler
CloseSessionDirectly ==
    /\ session_open
    /\ closes < MaxCloses
    /\ _session' = Some([_session[1] EXCEPT !.closed = TRUE])
    /\ closes' = closes + 1
    /\ UNCHANGED <<_session_lock, _connector, tasks, sessions, SessionIdle>>

\* close(): `if self._session: await self._session.close()`
close(t) ==
    /\ tasks[t].pc = "idle"
    /\ closes < MaxCloses
    /\ IF session_open
       THEN /\ _session' = Some([_session[1] EXCEPT !.closed = TRUE])
            /\ closes' = closes + 1
       ELSE UNCHANGED <<_session, closes>>
    /\ tasks' = [tasks EXCEPT ![t].pc = "close_connector"]
    /\ UNCHANGED <<_session_lock, _connector, sessions, SessionIdle>>

\* close(): `if self._connector: await self._connector.close()`
CloseConnector(t) ==
    /\ tasks[t].pc = "close_connector"
    /\ _connector' = [closed |-> TRUE]
    /\ tasks' = [tasks EXCEPT ![t].pc = "idle"]
    /\ UNCHANGED <<_session, _session_lock, sessions, closes, SessionIdle>>

InitSession ==
    /\ RuntimeAtRest
    /\ AllPatched
    /\ NoInspectorYet
    /\ NoSessionYet
    /\ input = NoInput
    /\ output = None

NextSession ==
    \/ \E t \in Tasks :
        \/ ensure_session(t)
        \/ AcquireSessionLock(t)
        \/ CreateSession(t)
        \/ close(t)
        \/ CloseConnector(t)
    \/ CloseSessionDirectly

SpecSession == InitSession /\ [][NextSession]_vars

-----------------------------------------------------------------------------
\* Specification SpecClient: calls of request on a BaseClient, a RequestHandler and an
\* AsyncRequestHandler with or without a session, each answered by the endpoint with
\* some response or some failure of the transport.

\* the outcome of a call next to the reply the endpoint gave it
Answered(reply, outcome) == Some([reply |-> reply, outcome |-> outcome])

ClientIdle == <<RuntimeVars, PatchVars, InspectorVars, _session_lock, _connector, tasks,
                sessions, closes>>

BaseClientRequest ==
    /\ input.kind = "BaseClient.request"
    /\ output = None
    /\ \E reply \in EndpointReplies :
           output' = Answered(reply, BaseClient_request(input.data.method, "https://api", input.data.request_id,
                                             input.data.headers, EmptyDict, reply))
    /\ UNCHANGED <<ClientIdle, _session, input>>

RequestHandlerRequest ==
    /\ input.kind = "RequestHandler.request"
    /\ output = None
    /\ \E reply \in EndpointReplies :
           output' = Answered(reply, RequestHandler_request(input.data.method, "https://api",
                                                 input.data.request_id, input.data.headers,
                                                 EmptyDict, reply))
    /\ UNCHANGED <<ClientIdle, _session, input>>

AsyncRequestHandlerRequest ==
    /\ input.kind = "AsyncRequestHandler.request"
    /\ output = None
    /\ \E reply \in EndpointReplies :
           output' = Answered(reply, AsyncRequestHandler_request(_session, input.data.method, "https://api",
                                                      input.data.request_id, input.data.headers,
                                                      EmptyDict, << reply >>))
    /\ _session' =
           IF _session = None \/ input.data.method \notin VALID_HTTP_METHODS THEN _session
           ELSE Some([_session[1] EXCEPT
                          !.headers = session_headers(_session[1], input.data.request_id,
                                                      input.data.headers)])
    /\ UNCHANGED <<ClientIdle, input>>

NextClientCall ==
    /\ output # None
    /\ input' \in RequestInputs
    /\ output' = None
    /\ _session' \in { None, Some(ClientSession(1)) }
    /\ UNCHANGED ClientIdle

InitClient ==
    /\ RuntimeAtRest
    /\ AllPatched
    /\ NoInspectorYet
    /\ _session \in { None, Some(ClientSession(1)) }
    /\ _session_lock = None
    /\ _connector = [closed |-> FALSE]
    /\ tasks = [t \in Tasks |-> IdleTask]
    /\ sessions = 1
    /\ closes = 0
    /\ input \in RequestInputs
    /\ output = None

NextClient ==
    BaseClientRequest \/ RequestHandlerRequest \/ AsyncRequestHandlerRequest \/ NextClientCall

SpecClient == InitClient /\ [][NextClient]_vars

-----------------------------------------------------------------------------
\* Specification SpecHeaders: one AsyncRequestHandler whose session serves one request
\* after the other.

HandlerRequestInputs == { i \in RequestInputs : i.kind = "AsyncRequestHandler.request" }

\* the caller makes the next request on the same handler
NextHandlerCall ==
    /\ output # None
    /\ input' \in HandlerRequestInputs
    /\ output' = None
    /\ UNCHANGED <<ClientIdle, _session>>

InitHeaders ==
    /\ RuntimeAtRest
    /\ AllPatched
    /\ NoInspectorYet
    /\ _session = Some(ClientSession(1))
    /\ _session_lock = None
    /\ _connector = [closed |-> FALSE]
    /\ tasks = [t \in Tasks |-> IdleTask]
    /\ sessions = 1
    /\ closes = 0
    /\ input \in HandlerRequestInputs
    /\ output = None

NextHeaders == AsyncRequestHandlerRequest \/ NextHandlerCall

SpecHeaders == InitHeaders /\ [][NextHeaders]_vars

-----------------------------------------------------------------------------
\* Specification SpecRetry: one request of an AsyncRequestHandler with a session, under
\* a retry configuration, against an endpoint whose replies to the attempts are given.

RetryIdle == <<RuntimeVars, PatchVars, InspectorVars, _session_lock, _connector, tasks,
               sessions, closes>>

AsyncRequestWithRetries ==
    /\ input.kind = "request_with_retries"
    /\ output = None
    /\ output' = Some(AsyncRequestHandler_request(_session, "POST", "https://api", None,
                                                  EmptyDict, EmptyDict, input.data.replies))
    /\ _session' = Some([_session[1] EXCEPT
                            !.headers = session_headers(_session[1], None, EmptyDict)])
    /\ UNCHANGED <<RetryIdle, input>>

InitRetry ==
    /\ RuntimeAtRest
    /\ AllPatched
    /\ NoInspectorYet
    /\ _session = Some(ClientSession(1))
    /\ _session_lock = None
    /\ _connector = [closed |-> FALSE]
    /\ tasks = [t \in Tasks |-> IdleTask]
    /\ sessions = 1
    /\ closes = 0
    /\ input \in RetryInputs
    /\ output = None

NextRetry == AsyncRequestWithRetries

SpecRetry == InitRetry /\ [][NextRetry]_vars

-----------------------------------------------------------------------------
(* Properties *)

\* the events of a call, and how often and where they happened
Events(f) == { f.trace[i] : i \in DOMAIN f.trace }
Count(f, event) == Cardinality({ i \in DOMAIN f.trace : f.trace[i] = event })

Finished == last.frame # None
InProgress == { stack[i] : i \in DOMAIN stack }
Calls == InProgress \cup (IF Finished THEN {last.frame[1]} ELSE {})

Blocked(d) == d # None /\ d[1].action = "block"

\* the exception the finished call raised is SecurityPolicyError carrying decision d
RaisedPolicyError(d) ==
    /\ last.outcome = "raise"
    /\ last.exc = Some(SecurityPolicyError(d))

\* the finished call raised some SecurityPolicyError carrying a block Decision
RaisedBlock ==
    /\ last.outcome = "raise"
    /\ last.exc[1].type = "SecurityPolicyError"
    /\ Blocked(last.exc[1].decision)

PreCallNetworkFailure(f) ==
    /\ f.kind = "bedrock"
    /\ Len(f.preErrors) = llm_inspector_retry_attempts
    /\ \A i \in DOMAIN f.preErrors : f.preErrors[i] = ConnectError

\* the reason contains 'fail_open'
MentionsFailOpen(reason) ==
    \E e \in AttemptErrors : reason = ("API error (" \o e.type \o "), ") \o "fail_open" \o "=True"

FailOpenAllow(d) ==
    /\ d # None
    /\ d[1].action = "allow"
    /\ \E i \in DOMAIN d[1].reasons : MentionsFailOpen(d[1].reasons[i])

C3_InspectionOrder ==
    \A f \in Calls :
        /\ Count(f, "wrapped_call") <= 1
        /\ \A i \in DOMAIN f.trace, j \in DOMAIN f.trace :
              f.trace[i] = "wrapped_call" /\ f.trace[j] = "pre_start" =>
                  \E k \in DOMAIN f.trace : j < k /\ k < i /\ f.trace[k] = "pre_end"
        /\ \A i \in DOMAIN f.trace :
              f.trace[i] = "post_start" =>
                  \E k \in DOMAIN f.trace : k < i /\ f.trace[k] = "wrapped_return"

C3_Witness ==
    /\ Finished
    /\ last.frame[1].trace =
          <<"pre_start", "pre_end", "wrapped_call", "wrapped_return", "post_start", "post_end">>

\* C4: within one logical LLM call at most one pre-call and at most one post-call
\* Decision are recorded, and a Bedrock call entered while another intercepted call is
\* in progress is forwarded without inspection.
C4_OneInspectionPerCall ==
    /\ recorded.pre <= 1
    /\ recorded.post <= 1
    /\ \A i \in DOMAIN stack :
          i > 1 /\ stack[i].kind = "bedrock" =>
              Events(stack[i]) \cap {"pre_start", "post_start", "gateway_post"} = {}

\* a nested Bedrock call under inspection inside an inspected Bedrock call
C4_Witness ==
    /\ Len(stack) = 2
    /\ stack[1].kind = "bedrock" /\ stack[1].pre # None
    /\ stack[2].kind = "bedrock" /\ stack[2].pc = "pre"

SkipActiveFor(f) ==
    \/ f.kind = "bedrock" /\ is_llm_skip_active
    \/ f.kind = "mcp" /\ is_mcp_skip_active

\* the wrapper did nothing but call the wrapped function
ForwardedUnchanged(f) ==
    /\ f.forwarded
    /\ Events(f) \subseteq {"wrapped_call", "wrapped_return", "wrapped_raise"}
    /\ f.pre = None /\ f.post = None /\ f.gateway = "none"

\* what makes the wrapper inspect a call outside a skip guard: the mode is not off and,
\* for Bedrock, the operation is a Bedrock operation, the context is not done and the
\* request yields messages or goes to the gateway
Inspectable(f) ==
    IF f.kind = "bedrock"
    THEN /\ cfg.llm_mode # "off"
         /\ _is_bedrock_operation(f.op)
         /\ ~ctx.done
         /\ f.messages \/ (bedrock_is_gateway_mode /\ cfg.bedrock_gateway)
    ELSE cfg.mcp_mode # "off"

C6_PreCallBlockMcp ==
    /\ \A f \in InProgress :
          f.kind = "mcp" /\ Blocked(f.pre) => cfg.mcp_mode # "on_enforce"
    /\ Finished /\ last.frame[1].kind = "mcp" /\ Blocked(last.frame[1].pre)
          /\ cfg.mcp_mode = "on_enforce"
          => /\ RaisedPolicyError(last.frame[1].pre[1])
             /\ "wrapped_call" \notin Events(last.frame[1])

C6_Witness ==
    /\ Finished
    /\ last.frame[1].kind = "mcp"
    /\ Blocked(last.frame[1].pre)
    /\ cfg.mcp_mode = "on_enforce"
    /\ last.outcome = "raise"

\* the result object of an MCP inspection response
McpResultOf(data) == IF "result" \in DOMAIN data THEN data["result"] ELSE data

\* C7: the MCP inspector's Decision is block whenever the response says action "Block"
\* or is_safe false, and it is allow only when the action is not "Block" and is_safe
\* is true or absent.
C7_McpBlockOnEither ==
    input.kind = "mcp" /\ output # None =>
        LET result == McpResultOf(input.data)
            says_block == "action" \in DOMAIN result /\ result["action"] = s_Block
            says_unsafe == "is_safe" \in DOMAIN result /\ result["is_safe"] = "false"
            safe_or_absent == "is_safe" \in DOMAIN result => result["is_safe"] = "true"
        IN  /\ output[1].action \in {"block", "allow"}
            /\ says_block \/ says_unsafe => output[1].action = "block"
            /\ output[1].action = "allow" => ~says_block /\ safe_or_absent

\* action "Allow" with is_safe false: is_safe alone blocks
C7_Witness ==
    /\ input.kind = "mcp"
    /\ output # None
    /\ "action" \in DOMAIN McpResultOf(input.data)
    /\ McpResultOf(input.data)["action"] = s_Allow
    /\ "is_safe" \in DOMAIN McpResultOf(input.data)
    /\ McpResultOf(input.data)["is_safe"] = "false"
    /\ output[1].action = "block"

\* s spells word, whatever the case of its letters
Spells(s, word) ==
    /\ Len(s) = Len(word)
    /\ \A i \in DOMAIN s :
          \/ s[i] = word[i]
          \/ s[i] \in DOMAIN UpperToLower /\ UpperToLower[s[i]] = word[i]

\* C8: the LLM inspector's Decision follows the response's action whatever its case:
\* block gives block, sanitize gives sanitize with the response's sanitized_content,
\* monitor_only gives monitor_only, any other or missing action gives allow.
C8_LlmActionMapping ==
    input.kind = "llm" /\ output # None =>
        LET has == "action" \in DOMAIN input.data
            a == IF has THEN input.data["action"] ELSE <<>>
            d == output[1]
        IN  IF has /\ Spells(a, s_block) THEN d.action = "block"
            ELSE IF has /\ Spells(a, s_sanitize)
            THEN /\ d.action = "sanitize"
                 /\ d.sanitized_content =
                       IF "sanitized_content" \in DOMAIN input.data
                       THEN Some(input.data["sanitized_content"]) ELSE None
            ELSE IF has /\ Spells(a, s_monitor_only) THEN d.action = "monitor_only"
            ELSE d.action = "allow"

\* "MONITOR_ONLY" in capitals gives monitor_only
C8_Witness ==
    /\ input.kind = "llm"
    /\ output # None
    /\ "action" \in DOMAIN input.data
    /\ input.data["action"] # s_monitor_only
    /\ Spells(input.data["action"], s_monitor_only)
    /\ output[1].action = "monitor_only"

\* the inspection service answered every attempt with 401 or 400
AuthOrValidationFailure(errors, attempts) ==
    /\ Len(errors) = attempts
    /\ \A i \in DOMAIN errors : errors[i] \in {Http401, Http400}

RejectedPreCall(f) ==
    AuthOrValidationFailure(f.preErrors,
        IF f.kind = "bedrock" THEN llm_inspector_retry_attempts ELSE mcp_inspector_retry_attempts)

\* C9: an inspection the service answered with 401 or 400 yields no Decision and
\* the wrapped function is not called for it: the error surfaces, whatever fail_open is.
C9_AuthErrorsSurface ==
    \A f \in Calls :
        RejectedPreCall(f) =>
            /\ f.pre = None
            /\ "wrapped_call" \notin Events(f)

\* the provider function running after the service answered 401 to the pre-call inspection
C9_Witness ==
    /\ stack # <<>>
    /\ Top.kind = "bedrock"
    /\ RejectedPreCall(Top)
    /\ Top.preErrors[1] = Http401
    /\ Top.pc = "wrapped"
    /\ Top.pre # None /\ Top.pre[1].action = "allow"

\* C10: a Bedrock gateway call that ended in an HTTP failure: with
\* gateway_mode_fail_open_llm the context holds Decision.allow with reason
\* "Gateway error, fail_open=True" and the HTTP error itself reaches the caller; without
\* it the caller gets SecurityPolicyError with a block Decision.
C10_GatewayHttpFailure ==
    Finished /\ last.frame[1].gateway = "HTTPStatusError" =>
        IF cfg.gateway_mode_fail_open_llm
        THEN /\ ctx.decision = Some(Decision_allow(<<"Gateway error, fail_open=True">>, None))
             /\ last.outcome = "raise"
             /\ last.exc = Some(OtherError("HTTPStatusError"))
        ELSE RaisedBlock

\* under fail_open the caller gets SecurityPolicyError("Gateway unavailable")
C10_Witness ==
    /\ Finished
    /\ last.frame[1].gateway = "HTTPStatusError"
    /\ cfg.gateway_mode_fail_open_llm
    /\ RaisedBlock

\* the entry point a patch function wraps
PatchTarget(name) ==
    IF name = "bedrock" THEN "BaseClient._make_api_call" ELSE "ClientSession.call_tool"

\* the patch call met a missing library or a wrapping that raises
PatchFails(call) == ~call.before /\ (~call.importable \/ call.wrap_raises)

\* C11: however often the patch functions are called, each entry point carries at most
\* one wrapper; a call after the first successful one returns True without wrapping;
\* a call that meets a missing library or a wrapping that raises returns False and
\* records nothing; get_patched_clients gives exactly the names whose patch succeeded.
C11_PatchOnce ==
    /\ \A t \in PatchTargets : wrappers[t] <= 1
    /\ \A name \in PatchNames :
          wrappers[PatchTarget(name)] =
              Cardinality({ i \in DOMAIN patchLog : patchLog[i].name = name /\ patchLog[i].wrapped })
    /\ \A i \in DOMAIN patchLog :
          /\ (\E j \in 1..(i - 1) : patchLog[j].name = patchLog[i].name /\ patchLog[j].wrapped)
                => patchLog[i].returned /\ ~patchLog[i].wrapped
          /\ PatchFails(patchLog[i]) => ~patchLog[i].returned /\ ~patchLog[i].wrapped
          /\ patchLog[i].wrapped => patchLog[i].returned
    /\ get_patched_clients =
          { patchLog[i].name : i \in { k \in DOMAIN patchLog : patchLog[k].wrapped } }

\* patch_bedrock fails, succeeds, and is called twice more
C11_Witness ==
    /\ Len(patchLog) = MaxPatchCalls
    /\ \A i \in DOMAIN patchLog : patchLog[i].name = "bedrock"
    /\ PatchFails(patchLog[1])
    /\ patchLog[2].wrapped
    /\ patchLog[4].returned /\ ~patchLog[4].wrapped
    /\ get_patched_clients = {"bedrock"}

\* the content list of the response behind the fake stream
StreamContent ==
    dict_get(dict_get(dict_get(input.data, "output", EmptyDict), "message", EmptyDict),
             "content", << >>)
IsTextBlock(b) == "text" \in DOMAIN b
IsToolUseBlock(b) == "toolUse" \in DOMAIN b /\ "text" \notin DOMAIN b
TextCount == Cardinality({ i \in DOMAIN StreamContent : IsTextBlock(StreamContent[i]) })
ToolUseCount == Cardinality({ i \in DOMAIN StreamContent : IsToolUseBlock(StreamContent[i]) })
EmittedBlocks == SelectSeq(StreamContent, LAMBDA b : IsTextBlock(b) \/ IsToolUseBlock(b))
EventName(e) == CHOOSE k \in DOMAIN e : TRUE
RECURSIVE BlockTriples(_)
BlockTriples(n) ==
    IF n = 0 THEN << >>
    ELSE <<"contentBlockStart", "contentBlockDelta", "contentBlockStop">> \o BlockTriples(n - 1)
ExpectedOrder == <<"messageStart">> \o BlockTriples(Len(EmittedBlocks)) \o <<"messageStop", "metadata">>

\* C12: the events a consumer has read from the fake stream are a prefix of messageStart,
\* one start/delta/stop triple per text or tool-use block in response order, messageStop,
\* metadata; each triple carries its block's text or tool name; when the stream ends exactly
\* 1 + 3*(T+U) + 1 + 1 events were read; for the single text block "Hello" that is six
\* events and the delta carries "Hello".
C12_FakeStreamEvents ==
    input.kind = "stream" =>
        LET events == output.events
            n == Len(events)
        IN /\ n <= Len(ExpectedOrder)
           /\ \A i \in 1..n : EventName(events[i]) = ExpectedOrder[i]
           /\ output.stopped => n = 1 + 3 * (TextCount + ToolUseCount) + 1 + 1
           /\ \A k \in 1..Len(EmittedBlocks) :
                3 * k <= n =>
                    LET b == EmittedBlocks[k]
                        start == events[3 * k - 1].contentBlockStart.start
                        delta == events[3 * k].contentBlockDelta.delta
                    IN IF IsTextBlock(b)
                       THEN delta = [text |-> b["text"]]
                       ELSE /\ start.toolUse.name = dict_get(b["toolUse"], "name", "")
                            /\ DOMAIN delta = {"toolUse"}
           /\ (StreamContent = << ("text" :> "Hello") >> /\ output.stopped) =>
                /\ n = 6
                /\ events[3].contentBlockDelta.delta.text = "Hello"

C12_Witness ==
    /\ input.kind = "stream"
    /\ output.stopped
    /\ TextCount = 2
    /\ ToolUseCount = 1
    /\ Len(output.events) = 12
    /\ StreamContent[1] = ("text" :> "Hello")

\* C13: the n-th block the fake stream emits (counting from 0) carries contentBlockIndex n
\* in its start, delta and stop events.
C13_DenseIndices ==
    input.kind = "stream" =>
        \A i \in DOMAIN output.events :
            LET e == output.events[i]
            IN EventName(e) \in {"contentBlockStart", "contentBlockDelta", "contentBlockStop"}
                => e[EventName(e)].contentBlockIndex = (i - 2) \div 3

C13_Witness ==
    /\ input.kind = "stream"
    /\ output.stopped
    /\ StreamContent = << ("reasoningContent" :> "thinking"), ("text" :> "Hello") >>
    /\ Len(output.events) = 6
    /\ output.events[3].contentBlockDelta.contentBlockIndex = 1

\* C14: the JSON-RPC ids one MCPInspector hands out are pairwise distinct and strictly
\* increasing in the order they are issued, whichever threads asked for them.
C14_IdsStrictlyIncreasing ==
    \A i, j \in DOMAIN issued : i < j => issued[i] < issued[j]

C14_Witness ==
    /\ Len(issued) = 2
    /\ issued[1] = issued[2]
    /\ \A t \in Threads : threads[t].calls = 1

Contains(text, part) ==
    \E i \in 1..(Len(text) - Len(part) + 1) : SubSeq(text, i, i + Len(part) - 1) = part

\* a Converse message whose content is a non-empty list of toolResult blocks only
ToolResultOnly(msg) ==
    /\ "content" \in DOMAIN msg
    /\ isinstance(msg.content, "list")
    /\ msg.content.list # << >>
    /\ \A i \in DOMAIN msg.content.list : "toolResult" \in DOMAIN msg.content.list[i]

Normalized == input.kind \in {"converse", "invoke"} /\ output # None

\* C15: every Converse message made of toolResult blocks only is among the normalized
\* messages, with a "[Tool result: " marker in its content.
C15_ToolResultMarked ==
    (Normalized /\ input.kind = "converse") =>
        LET msgs == dict_get(input.data, "messages", << >>)
            out == output[1]
        IN Cardinality({ k \in DOMAIN out : Contains(out[k].content, "[Tool result: ") })
             >= Cardinality({ i \in DOMAIN msgs : ToolResultOnly(msgs[i]) })

C15_Witness ==
    /\ Normalized
    /\ input.kind = "converse"
    /\ input.data = [messages |-> << [role |-> "user",
            content |-> PyList(<< ("toolResult" :> [content |-> << ("json" :> "{\"temp\": 22}") >>]) >>)] >>]
    /\ output = Some(<< >>)

\* C16: every message the Bedrock normalization returns has non-empty content.
C16_NonEmptyContent ==
    Normalized => \A k \in DOMAIN output[1] : output[1][k].content # ""

C16_Witness ==
    /\ Normalized
    /\ input.kind = "invoke"
    /\ input.data = [json |-> TRUE, data |-> [inputText |-> ""]]
    /\ output = Some(<< [role |-> "user", content |-> ""] >>)

NonBedrock(f) == f.kind = "bedrock" /\ f.op \notin BEDROCK_OPERATIONS

\* C17: a botocore operation that is no Bedrock operation is forwarded: entering the
\* wrapper goes straight to the wrapped function, with no inspection, no gateway request
\* and the context as it was; when the wrapped function ends the wrapper ends the same
\* way, having called it once, and again leaves the context as it was; in every mode.
C17_NonBedrockForwarded ==
    [][ /\ (Len(stack') = Len(stack) + 1 /\ NonBedrock(stack'[Len(stack')])) =>
              /\ ctx' = ctx
              /\ stack'[Len(stack')].pc = "wrapped"
              /\ stack'[Len(stack')].trace = <<"wrapped_call">>
              /\ ForwardedUnchanged(stack'[Len(stack')])
        /\ (stack # <<>> /\ NonBedrock(stack[Len(stack)]) /\ Len(stack') = Len(stack) - 1) =>
              /\ ctx' = ctx
              /\ last'.frame # None
              /\ ForwardedUnchanged(last'.frame[1])
              /\ Count(last'.frame[1], "wrapped_call") = 1
              /\ \/ /\ last'.frame[1].trace = <<"wrapped_call", "wrapped_return">>
                    /\ last'.outcome = "return"
                 \/ /\ last'.frame[1].trace = <<"wrapped_call", "wrapped_raise">>
                    /\ last'.outcome = "raise"
      ]_vars

C17_Witness ==
    /\ Finished
    /\ NonBedrock(last.frame[1])
    /\ last.outcome = "return"
    /\ cfg.llm_mode = "on_enforce"
    /\ ~ctx.skip_llm
    /\ last.frame[1].trace = <<"wrapped_call", "wrapped_return">>

\* C18: a call whose wrapped provider function raised ends raising that exception, not a
\* SecurityPolicyError and not a normal return, and no post-call inspection was started;
\* no call goes on after its wrapped function raised.
C18_ProviderErrorPropagates ==
    /\ \A f \in InProgress : "wrapped_raise" \notin Events(f)
    /\ (Finished /\ "wrapped_raise" \in Events(last.frame[1])) =>
          /\ last.outcome = "raise"
          /\ last.exc = Some(OtherError("ProviderError"))
          /\ "post_start" \notin Events(last.frame[1])
          /\ last.frame[1].post = None
          /\ last.frame[1].trace[Len(last.frame[1].trace)] = "wrapped_raise"

C18_Witness ==
    /\ Finished
    /\ last.frame[1].kind = "mcp"
    /\ last.frame[1].pre # None
    /\ "wrapped_raise" \in Events(last.frame[1])
    /\ last.outcome = "raise"
    /\ last.exc = Some(OtherError("ProviderError"))

HttpCalled == input.kind \in {"inspect_request", "inspect_response", "inspect_http_raw"}
                /\ output # None

\* the body argument of the call, and its bytes when it is bytes or a str
GivenBody ==
    IF input.kind = "inspect_http_raw" THEN input.data.http_req.body ELSE input.data.body
GivenBytes ==
    IF isinstance(GivenBody, "bytes") THEN GivenBody.bytes ELSE str_encode(GivenBody.str)

\* the body field, holding the body argument, of the request dict the client prepared
PreparedBody ==
    IF input.kind = "inspect_response" THEN output[1].request[1]["http_res"].dict.body
    ELSE output[1].request[1]["http_req"].dict.body

C20_InvalidBodyRejected ==
    (HttpCalled /\ input.kind \in {"inspect_request", "inspect_response"}) =>
        /\ isinstance(GivenBody, "int") =>
              /\ output[1].raised = Some("ValidationError")
              /\ output[1].sent = None
        /\ GivenBody = PyNone => output[1].body_b64 = Some("")

C20_Witness ==
    /\ HttpCalled
    /\ input.kind = "inspect_request"
    /\ GivenBody = PyInt(12345)
    /\ output[1].raised = Some("TypeError")
    /\ output[1].sent = None

\* an inspect_response call with a non-empty body and no request context
ResponseAlone ==
    /\ HttpCalled
    /\ input.kind = "inspect_response"
    /\ input.data.request_method = None
    /\ input.data.request_body = PyNone
    /\ isinstance(GivenBody, "bytes") \/ isinstance(GivenBody, "str")
    /\ ~Falsy(GivenBody)

\* C21: inspect_response with a status code, a non-empty body and no request context
\* passes validation and sends one request, which holds http_res.
C21_ResponseInspectedAlone ==
    ResponseAlone =>
        /\ output[1].raised = None
        /\ output[1].sent # None
        /\ output[1].sent[1].http_res # None

C21_Witness ==
    /\ ResponseAlone
    /\ GivenBody = PyStr("hi there")
    /\ output[1].raised = Some("ValidationError")
    /\ output[1].sent = None

\* the request dict validated, and what it holds
Validated == input.kind = "validate_inspection_request" /\ output # None
ReqOf(d) == dict_get(d, "http_req", PyNone)
ResOf(d) == dict_get(d, "http_res", PyNone)
ConfigInvalid(d) ==
    /\ "config" \in DOMAIN d
    /\ \/ "enabled_rules" \notin DOMAIN d["config"]
       \/ ~isinstance(d["config"]["enabled_rules"], "list")
       \/ d["config"]["enabled_rules"] = PyList(<< >>)
ReqMissing(d) == ReqOf(d) = PyNone \/ ~isinstance(ReqOf(d), "dict")
BodyEmpty(r) == dict_get(r.dict, "body", PyStr("")) = PyStr("")
MethodInSet(r) ==
    /\ "method" \in DOMAIN r.dict
    /\ r.dict["method"] # None
    /\ r.dict["method"][1] \in VALID_HTTP_METHODS
ResComplete(r) ==
    /\ isinstance(r, "dict")
    /\ "statusCode" \in DOMAIN r.dict
    /\ ~BodyEmpty(r)
ValidRequestDict(d) ==
    /\ ~ConfigInvalid(d)
    /\ ~ReqMissing(d)
    /\ ~BodyEmpty(ReqOf(d))
    /\ MethodInSet(ReqOf(d))
    /\ ResOf(d) # PyNone => ResComplete(ResOf(d))
RejectedRequestDict(d) ==
    \/ ConfigInvalid(d)
    \/ ReqMissing(d)
    \/ BodyEmpty(ReqOf(d))
    \/ ~MethodInSet(ReqOf(d))

\* C22: validate_inspection_request returns without raising for a request dict whose
\* http_req has a method of the verb set and a non-empty body (and whose http_res, when
\* present, has a statusCode and a non-empty body); it raises ValidationError when
\* http_req is missing or no dict, its body is empty, its method is missing or outside
\* the set, or config.enabled_rules is no non-empty list; it raises nothing else.
C22_ValidatesRequestDict ==
    Validated =>
        /\ ValidRequestDict(input.data) => output[1].raised = None
        /\ RejectedRequestDict(input.data) => output[1].raised = Some("ValidationError")
        /\ output[1].raised \in {None, Some("ValidationError")}

C22_Witness ==
    /\ Validated
    /\ ValidRequestDict(input.data)
    /\ ReqOf(input.data) = PyDict([method |-> Some("GET"), body |-> PyStr("aGk=")])
    /\ output[1].raised = Some("NameError")

\* the chat inspection call made, and what it was given
ChatCalled == input.kind = "chat_inspect" /\ output # None
RoleName(m) ==
    IF ~isinstance(m, "dataclass") THEN "none"
    ELSE IF isinstance(m.dataclass.role, "enum") THEN m.dataclass.role.enum
    ELSE "other"
ContentText(m) ==
    IF isinstance(m, "dataclass") /\ isinstance(m.dataclass.content, "str")
    THEN m.dataclass.content.str ELSE ""
NotBlank(text) == text \notin {"", " \t"}
NoMapping(v) == v # PyNone /\ ~isinstance(v, "dataclass") /\ ~isinstance(v, "dict")
ChatRejected(d) ==
    \/ ~isinstance(d.messages, "list")
    \/ d.messages.list = << >>
    \/ \E i \in DOMAIN d.messages.list :
           \/ RoleName(d.messages.list[i]) \notin valid_roles
           \/ ContentText(d.messages.list[i]) = ""
    \/ ~\E i \in DOMAIN d.messages.list :
           /\ RoleName(d.messages.list[i]) \in {"user", "assistant"}
           /\ NotBlank(ContentText(d.messages.list[i]))
    \/ NoMapping(d.metadata)
    \/ NoMapping(d.config)

\* C23: a chat inspection whose messages are empty or no list, or hold a message whose
\* role is none of user, assistant and system or whose content is empty or no str, or
\* hold no user or assistant message of non-blank content, or whose metadata or config
\* is given and no mapping, raises ValidationError and sends nothing; every other chat
\* inspection makes exactly one POST to /api/v1/inspect/chat.
C23_ChatValidatedThenPosted ==
    ChatCalled =>
        IF ChatRejected(input.data)
        THEN /\ output[1].raised # None
             /\ output[1].raised[1].type = "ValidationError"
             /\ output[1].sent = << >>
        ELSE /\ Len(output[1].sent) = 1
             /\ output[1].sent[1].method = "POST"
             /\ output[1].sent[1].url = ChatEndpoint

C23_Witness ==
    /\ ChatCalled
    /\ ~ChatRejected(input.data)
    /\ Len(input.data.messages.list) = 2
    /\ input.data.metadata # PyNone
    /\ Len(output[1].sent) = 1
    /\ output[1].sent[1].json["messages"].list[2] =
           PyDict([role |-> PyStr("assistant"), content |-> PyStr("hi")])

\* the tasks whose ensure_session has returned
Returned == { t \in Tasks : tasks[t].seen # None }

\* no two sessions are created without a close between them, and tasks whose
\* ensure_session returned with no close between them found the same session
OneSessionUntilClosed ==
    /\ sessions <= closes + 1
    /\ \A t \in Returned, u \in Returned :
           tasks[t].seen[1].closes = tasks[u].seen[1].closes
               => tasks[t].seen[1].id = tasks[u].seen[1].id

\* C24: however the ensure_session calls of the tasks of one AsyncRequestHandler
\* interleave, one session is created and every call returns with that session in the
\* handler; a later ensure_session creates a session only when there is none or the
\* handler's session is closed, and otherwise leaves the handler's session as it is.
C24_OneSessionForAllCallers ==
    [][/\ OneSessionUntilClosed'
       /\ sessions' # sessions => ~session_open
       /\ session_open /\ closes' = closes => _session' = _session]_vars

C24_Witness ==
    /\ \A t \in Tasks : tasks[t].calls >= 1 /\ tasks[t].seen = Some([id |-> 1, closes |-> 0])
    /\ \E t \in Tasks : tasks[t].calls = MaxEnsureCalls
    /\ sessions = 1
    /\ closes = 0

\* C25: close() closes the session of the handler, if there is one, and leaves the
\* connector of the shared AsyncConfig open.
C25_CloseLeavesConnectorOpen ==
    [][\A t \in Tasks :
          /\ tasks[t].pc = "idle" /\ tasks'[t].pc = "close_connector" => ~session_open'
          /\ tasks[t].pc = "close_connector" /\ tasks'[t].pc = "idle" => ~_connector'.closed]_vars

C25_Witness ==
    /\ _session # None
    /\ _session[1].closed
    /\ _connector.closed
    /\ \A t \in Tasks : tasks[t].pc = "idle"

\* a call of request on one of the clients that was answered by a response
ClientCalled ==
    /\ input.kind \in { "BaseClient.request", "RequestHandler.request",
                        "AsyncRequestHandler.request" }
    /\ output # None
RequestSent == ClientCalled /\ output[1].outcome.sent # << >>
ResponseSeen == RequestSent /\ "status_code" \in DOMAIN output[1].reply
EndsWith(text, suffix) ==
    /\ Len(text) >= Len(suffix)
    /\ SubSeq(text, Len(text) - Len(suffix) + 1, Len(text)) = suffix
\* the request id the request sent carries, None if it carries none
SentRequestId ==
    IF REQUEST_ID_HEADER \in DOMAIN output[1].outcome.sent[1].headers
    THEN Some(output[1].outcome.sent[1].headers[REQUEST_ID_HEADER]) ELSE None
\* the messages the claim allows for a response
MessagesAllowed(response) ==
    IF response.json # None /\ "message" \in DOMAIN response.json[1]
    THEN { response.json[1].message }
    ELSE IF response.json # None THEN { response.text, "Unknown error" }
    ELSE IF response.text # "" THEN { response.text }
    ELSE { "Unknown error" }

C27_RequestIdOnEveryRequest ==
    RequestSent =>
        SentRequestId = IF input.data.request_id = None THEN Some(FreshUuid)
                        ELSE input.data.request_id

C27_Witness ==
    /\ RequestSent
    /\ input.kind = "RequestHandler.request"
    /\ input.data.request_id = None
    /\ SentRequestId = None

\* a reply after which the claim has the request attempted again: a failure of the
\* connection, a timeout, or a status of the forcelist
RetriedReply(reply) ==
    \/ "transport_error" \in DOMAIN reply
    \/ "status_code" \in DOMAIN reply /\ reply.status_code \in status_forcelist

\* the attempts the claim gives a request: one more after each of its first replies
\* that is retried, up to total more
RECURSIVE AttemptsClaimed(_, _)
AttemptsClaimed(replies, total) ==
    IF total = 0 \/ ~RetriedReply(Head(replies)) THEN 1
    ELSE 1 + AttemptsClaimed(Tail(replies), total - 1)

RetryCalled == input.kind = "request_with_retries" /\ output # None

\* C28: a request is attempted again after a failure of the connection, a timeout or
\* an ApiError whose status is in status_forcelist, at most total times; after a
\* ValidationError, an SDKError, an ApiError of another status, or a result, it is not
\* attempted again.
C28_RetriesOnlyTransient ==
    RetryCalled =>
        Len(output[1].sent) = AttemptsClaimed(input.data.replies, input.data.total)

C28_Witness ==
    /\ RetryCalled
    /\ input.data.total = MaxRetryTotal
    /\ input.data.replies[1] = RetryResponse(503)
    /\ input.data.replies[2] = RetryResponse(200)
    /\ Len(output[1].sent) = 1
    /\ output[1].raised # None
    /\ output[1].raised[1].type = "ApiError"

\* the finished call was a non-streaming Bedrock operation in API mode whose post-call
\* inspection returned a block Decision
PostCallBlock ==
    /\ Finished
    /\ last.frame[1].kind = "bedrock"
    /\ last.frame[1].op \in BEDROCK_OPERATIONS \ StreamingOperations
    /\ ~bedrock_is_gateway_mode
    /\ Blocked(last.frame[1].post)

\* C29: a non-streaming Bedrock operation in API mode whose post-call inspection
\* returned a block Decision ends, under on_enforce, raising SecurityPolicyError with
\* that Decision instead of returning the response of the provider, and under monitor
\* returning that response; either way the context it leaves holds the Decision and
\* has done set.
C29_PostCallBlockBedrock ==
    PostCallBlock =>
        /\ "wrapped_return" \in Events(last.frame[1])
        /\ IF cfg.llm_mode = "on_enforce"
           THEN RaisedPolicyError(last.frame[1].post[1])
           ELSE cfg.llm_mode = "monitor" /\ last.outcome = "return"
        /\ last.ctx[1].decision = last.frame[1].post
        /\ last.ctx[1].done

C29_Witness ==
    /\ PostCallBlock
    /\ cfg.llm_mode = "on_enforce"
    /\ last.frame[1].op = "Converse"
    /\ last.outcome = "raise"
    /\ last.ctx[1].done

\* d is what the fail_open policy of the LLM inspector makes of error: the Decision it
\* returns with fail_open, the Decision of the SecurityPolicyError it raises without
PolicyApplied(d, error) ==
    \/ d = Decision_allow(<<"API error (" \o error.type \o "), fail_open=True">>, None)
    \/ d = Decision_block(<<"API error: " \o error.type \o ": " \o error.msg>>, None)
FromPolicy(d) == \E e \in AttemptErrors : PolicyApplied(d, e)

\* the attempts of one inspect_conversation call that failed (errors), with the
\* Decision it returned (None if it returned none) and whether it is still running
AttemptsBounded(errors, decision, running) ==
    /\ Len(errors) <= llm_inspector_retry_attempts
    /\ running => decision = None /\ Len(errors) < llm_inspector_retry_attempts
    /\ decision # None /\ FromPolicy(decision[1]) =>
           /\ Len(errors) = llm_inspector_retry_attempts
           /\ PolicyApplied(decision[1], errors[Len(errors)])
    /\ decision # None /\ ~FromPolicy(decision[1]) => Len(errors) < llm_inspector_retry_attempts

\* the finished call raised the SecurityPolicyError of the fail_open policy
RaisedByPolicy ==
    /\ Finished
    /\ last.frame[1].kind = "bedrock"
    /\ last.outcome = "raise"
    /\ last.exc[1].type = "SecurityPolicyError"
    /\ FromPolicy(last.exc[1].decision[1])

\* C30: one inspect_conversation call of the LLM inspector with endpoint and key makes
\* at most max(1, retry_attempts) requests; it makes no request after one that
\* succeeded, and it applies the fail_open policy only when max(1, retry_attempts)
\* requests have failed, to the error of the last of them.
C30_AttemptsUntilSuccess ==
    /\ \A f \in Calls :
          f.kind = "bedrock" /\ cfg.llm_api =>
              /\ AttemptsBounded(f.preErrors, f.pre, f \in InProgress /\ f.pc = "pre")
              /\ AttemptsBounded(f.postErrors, f.post, f \in InProgress /\ f.pc = "post")
    /\ RaisedByPolicy =>
          LET errors == IF "post_start" \in Events(last.frame[1])
                        THEN last.frame[1].postErrors ELSE last.frame[1].preErrors
          IN  /\ Len(errors) = llm_inspector_retry_attempts
              /\ PolicyApplied(last.exc[1].decision[1], errors[Len(errors)])

C30_Witness ==
    /\ Finished
    /\ last.frame[1].kind = "bedrock"
    /\ llm_inspector_retry_attempts = MaxRetryAttempts
    /\ Len(last.frame[1].preErrors) = MaxRetryAttempts
    /\ last.frame[1].preErrors[1] = ConnectError
    /\ last.frame[1].preErrors[MaxRetryAttempts] = Http401
    /\ last.frame[1].pre = Some(Decision_allow(<<"API error (HTTPStatusError), fail_open=True">>, None))
    /\ Len(last.frame[1].postErrors) = 1
    /\ last.frame[1].post # None
    /\ ~FromPolicy(last.frame[1].post[1])

\* the filter the rules fallback applies to an entry: its classification is none of
\* NONE_VIOLATION, NONE_SEVERITY, null
ReasonEntry(rule) ==
    /\ "classification" \in DOMAIN rule
    /\ rule["classification"] \notin {"NONE_VIOLATION", "NONE_SEVERITY"}

FormattedReasons(rules) ==
    LET sel == SelectSeq(rules, ReasonEntry)
    IN  [i \in DOMAIN sel |-> sel[i]["rule_name"] \o ": " \o sel[i]["classification"]]

ListOf(response_data, key) ==
    IF key \in DOMAIN response_data THEN response_data[key] ELSE <<>>

\* C31: the LLM inspector's reasons are the response's top-level reasons when that
\* list is non-empty, otherwise the rules entries whose classification is none of
\* NONE_VIOLATION, NONE_SEVERITY, null, as "<rule_name>: <classification>", otherwise
\* the processed_rules entries selected by the same filter.
C31_ReasonsPreference ==
    input.kind = "llm" /\ output # None =>
        LET top == ListOf(input.data, "reasons")
            fromRules == FormattedReasons(ListOf(input.data, "rules"))
            fromProcessed == FormattedReasons(ListOf(input.data, "processed_rules"))
        IN  output[1].reasons =
                IF top # <<>> THEN top
                ELSE IF fromRules # <<>> THEN fromRules
                ELSE fromProcessed

\* no top-level reasons and no selected rule: a processed_rules entry classified
\* SECURITY_VIOLATION is the reason
C31_Witness ==
    /\ input.kind = "llm"
    /\ output # None
    /\ ListOf(input.data, "reasons") = <<>>
    /\ FormattedReasons(ListOf(input.data, "rules")) = <<>>
    /\ "processed_rules" \in DOMAIN input.data
    /\ output[1].reasons = <<"Prompt Injection: SECURITY_VIOLATION">>

BlockHasReasons ==
    output # None /\ output[1].action = "block" => output[1].reasons # <<>>

\* no rules entry carries a violation classification
NoViolationRule(result) ==
    \A i \in DOMAIN ListOf(result, "rules") :
        LET rule == result["rules"][i]
        IN  "classification" \notin DOMAIN rule \/ rule["classification"] = "NONE_VIOLATION"

\* explanation, then attack technique, then the generic reason
McpFallbackReasons ==
    input.kind = "mcp" /\ output # None /\ output[1].action = "block"
        /\ NoViolationRule(McpResultOf(input.data)) =>
        LET result == McpResultOf(input.data)
        IN  output[1].reasons =
                IF "explanation" \in DOMAIN result THEN <<result["explanation"]>>
                ELSE IF "attack_technique" \in DOMAIN result
                        /\ result["attack_technique"] # "NONE_ATTACK_TECHNIQUE"
                THEN <<"Attack technique: " \o result["attack_technique"]>>
                ELSE <<"Unsafe content detected (severity: "
                         \o (IF "severity" \in DOMAIN result THEN result["severity"]
                             ELSE "UNKNOWN") \o ")">>

\* the fallback of the MCP inspector where the response says is_safe is false
McpFallbackWhenUnsafe ==
    input.kind = "mcp" /\ "is_safe" \in DOMAIN McpResultOf(input.data)
        /\ McpResultOf(input.data)["is_safe"] = "false" => McpFallbackReasons

\* C32: every block Decision the LLM inspector or the MCP inspector makes from a
\* service response has a non-empty reasons list; without a rule that carries a
\* violation classification the MCP inspector falls back to the explanation, then
\* to the attack technique, then to "Unsafe content detected".
C32_BlockHasReasons ==
    BlockHasReasons /\ McpFallbackReasons

\* an unsafe MCP result without rules, explanation or attack technique is blocked
\* with the generic reason
C32_Witness ==
    /\ input.kind = "mcp"
    /\ output # None
    /\ output[1].action = "block"
    /\ NoViolationRule(McpResultOf(input.data))
    /\ "explanation" \notin DOMAIN McpResultOf(input.data)
    /\ output[1].reasons = <<"Unsafe content detected (severity: HIGH)">>

\* the outermost call in progress is a Bedrock call whose request yields messages,
\* made with llm_mode not off and outside a skip guard
OutermostBedrockCall ==
    /\ stack # <<>>
    /\ stack[1].kind = "bedrock"
    /\ stack[1].op \in BEDROCK_OPERATIONS
    /\ stack[1].messages
    /\ cfg.llm_mode # "off"
    /\ ~ctx.skip_llm

\* C33: the done flag belongs to one logical call: every separate Bedrock call made
\* by user code (API mode, llm_mode not off, no skip guard) is pre-inspected, also
\* when an earlier call of the same thread completed its post-call inspection or
\* its gateway round trip, or an MCP tool call was post-inspected before it; in
\* gateway mode the later call is routed to the gateway again.
C33_DoneFlagPerCall ==
    OutermostBedrockCall =>
        IF cfg.llm_integration_mode = "gateway" /\ cfg.bedrock_gateway
        THEN stack[1].trace[1] = "gateway_post"
        ELSE stack[1].trace[1] = "pre_start"

\* a Bedrock call under pre-call inspection in a thread whose context holds the
\* Decision of an earlier call
C33_Witness ==
    /\ OutermostBedrockCall
    /\ Len(stack) = 1
    /\ stack[1].pc = "pre"
    /\ ctx.decision # None
    /\ ~ctx.done

\* the X-Bedrock-Operation header of the non-streaming operation
NonStreamingOperation(operation_name) ==
    IF operation_name \in {"Converse", "ConverseStream"} THEN "Converse" ELSE "InvokeModel"

\* a Bedrock call made in gateway mode with the Bedrock gateway configured,
\* llm_mode not off, outside a skip guard, in a context that is not done
RoutedToGateway(f) ==
    /\ f.kind = "bedrock"
    /\ f.op \in BEDROCK_OPERATIONS
    /\ cfg.llm_integration_mode = "gateway" /\ cfg.bedrock_gateway
    /\ cfg.llm_mode # "off"
    /\ ~ctx.skip_llm
    /\ ~f.forwarded

\* C34: in gateway mode with the Bedrock gateway configured the wrapped provider
\* function is never called; the native request is POSTed exactly once to the gateway
\* with the X-Bedrock-Operation header naming the non-streaming operation, and for
\* the streaming operations the gateway response is returned as a synthesized stream.
C34_GatewayRoundTrip ==
    \A f \in Calls :
        RoutedToGateway(f) =>
            /\ "wrapped_call" \notin Events(f)
            /\ Count(f, "gateway_post") = 1
            /\ f.header = Some(NonStreamingOperation(f.op))
            /\ Finished /\ last.frame[1] = f /\ last.outcome = "return" =>
                  f.streamed = (f.op \in StreamingOperations)

\* the same without the value of the header
GatewayOnceAndStreamed ==
    \A f \in Calls :
        RoutedToGateway(f) =>
            /\ "wrapped_call" \notin Events(f)
            /\ Count(f, "gateway_post") = 1
            /\ f.header # None
            /\ Finished /\ last.frame[1] = f /\ last.outcome = "return" =>
                  f.streamed = (f.op \in StreamingOperations)

\* a Converse call answered by the gateway
C34_Witness ==
    /\ Finished
    /\ RoutedToGateway(last.frame[1])
    /\ last.frame[1].op = "Converse"
    /\ last.frame[1].header = Some("Converse")
    /\ last.outcome = "return"
    /\ ~last.frame[1].streamed

\* the pre-call inspection of a Bedrock call ended with an error raised in the wrapper
\* outside the inspector's attempts
PatcherErrorPreCall(f) ==
    /\ f.kind = "bedrock"
    /\ "pre_end" \in Events(f)
    /\ f.preErrors = <<>>
    /\ \/ f.pre = None
       \/ /\ f.pre[1].raw_response = None
          /\ f.pre[1].reasons # <<>>

\* the same for the post-call inspection
PatcherErrorPostCall(f) ==
    /\ f.kind = "bedrock"
    /\ "post_end" \in Events(f)
    /\ f.postErrors = <<>>
    /\ f.post = None

PatcherErrorBeforeCall ==
    \A f \in Calls :
        PatcherErrorPreCall(f) =>
            IF cfg.api_mode_fail_open_llm
            THEN /\ f.pre # None /\ f.pre[1].action = "allow"
                 /\ "wrapped_call" \in Events(f)
            ELSE /\ f \notin InProgress
                 /\ RaisedBlock
                 /\ "wrapped_call" \notin Events(f)

PatcherErrorAfterCall ==
    Finished /\ PatcherErrorPostCall(last.frame[1]) =>
        IF cfg.api_mode_fail_open_llm
        THEN last.outcome = "return"
        ELSE RaisedBlock

\* C35: an error raised inside the Bedrock wrapper while it inspects, before or
\* after the provider call, follows fail_open: with fail_open an allow Decision is
\* produced and the provider's result reaches the caller; without it the call ends
\* raising SecurityPolicyError with a block Decision, also when the error occurs
\* during the post-call inspection.
C35_PatcherErrorPolicy ==
    PatcherErrorBeforeCall /\ PatcherErrorAfterCall

\* fail_open false: an error in the pre-call inspection code ends the call with
\* SecurityPolicyError
C35_Witness ==
    /\ Finished
    /\ PatcherErrorPreCall(last.frame[1])
    /\ ~cfg.api_mode_fail_open_llm
    /\ RaisedBlock

\* every attempt of the MCP pre-call inspection failed
McpPreCallFailure(f) ==
    /\ f.kind = "mcp"
    /\ Len(f.preErrors) = mcp_inspector_retry_attempts

InspectedTargets == {"BaseClient._make_api_call", "ClientSession.call_tool"}

\* C37: the patch registry is read and updated under mutual exclusion: when several
\* threads call the same patch function at the same time the entry point is wrapped
\* exactly once, so that one intercepted call runs one wrapper and triggers one
\* pre-call inspection.
C37_WrappedOnceUnderThreads ==
    \A target \in InspectedTargets : wrappers[target] <= 1

\* two threads are inside patch_bedrock at the same time, both past is_patched()
C37_Witness ==
    \A t \in Threads : threads[t].pc = "bedrock"

\* a Bedrock operation intercepted in API mode (llm_mode not off, no skip guard, context
\* not done) whose request normalizes to no messages
NoMessagesCall(f) ==
    /\ f.kind = "bedrock"
    /\ f.op \in BEDROCK_OPERATIONS
    /\ ~f.messages
    /\ ~f.forwarded
    /\ ~(cfg.llm_integration_mode = "gateway" /\ cfg.bedrock_gateway)

\* f is the call user code made, not one made from inside a wrapped function
Outermost(f) ==
    \/ stack # <<>> /\ f = stack[1]
    \/ stack = <<>> /\ Finished /\ last.depth = 1 /\ f = last.frame[1]

\* C38: when the normalization of an intercepted Bedrock request yields no messages,
\* the wrapper in API mode performs no pre-call and no post-call inspection, records
\* no Decision, calls the provider exactly once and returns its response, also under
\* on_enforce with fail_open false.
C38_NoMessagesNoInspection ==
    \A f \in Calls :
        NoMessagesCall(f) =>
            /\ Events(f) \subseteq {"wrapped_call", "wrapped_return", "wrapped_raise"}
            /\ Count(f, "wrapped_call") = 1
            /\ f.pre = None /\ f.post = None
            /\ f.nested = 0 /\ Outermost(f) => recorded = NoneRecorded
            /\ Finished /\ last.frame[1] = f /\ "wrapped_return" \in Events(f) =>
                  last.outcome = "return"

\* on_enforce, fail_open false: a Converse request without messages got the
\* provider's response
C38_Witness ==
    /\ Finished
    /\ NoMessagesCall(last.frame[1])
    /\ last.frame[1].op = "Converse"
    /\ cfg.llm_mode = "on_enforce"
    /\ ~cfg.api_mode_fail_open_llm
    /\ last.frame[1].trace = <<"wrapped_call", "wrapped_return">>
    /\ last.outcome = "return"

\* the inspector of call f has no endpoint or no API key
InspectorUnconfigured(f) ==
    \/ f.kind = "bedrock" /\ ~cfg.llm_api /\ cfg.llm_integration_mode = "api"
    \/ f.kind = "mcp" /\ ~cfg.mcp_api /\ cfg.mcp_integration_mode = "api"

AllowNoReasons == Some(Decision_allow(<<>>, None))

\* C39: an inspector without endpoint or API key answers every inspection with an
\* allow Decision with empty reasons, sends no request and takes no JSON-RPC id,
\* whatever fail_open is; the wrapped call proceeds and no SecurityPolicyError is
\* raised, also under on_enforce with fail_open false.
C39_UnconfiguredAllows ==
    \A f \in Calls :
        InspectorUnconfigured(f) =>
            /\ f.pc \notin {"pre", "post"}
            /\ f.preErrors = <<>> /\ f.postErrors = <<>>
            /\ f.ids = 0
            /\ f.pre \in {None, AllowNoReasons}
            /\ f.post \in {None, AllowNoReasons}
            /\ "pre_start" \in Events(f) =>
                  /\ f.pre = AllowNoReasons
                  /\ "wrapped_call" \in Events(f)
            /\ "post_start" \in Events(f) => f.post = AllowNoReasons
            /\ Finished /\ last.frame[1] = f /\ last.outcome = "raise" =>
                  last.exc[1].type # "SecurityPolicyError"

\* on_enforce, fail_open false, no endpoint: the tool call was made and its result
\* returned, both inspections having answered allow
C39_Witness ==
    /\ Finished
    /\ last.frame[1].kind = "mcp"
    /\ InspectorUnconfigured(last.frame[1])
    /\ cfg.mcp_mode = "on_enforce"
    /\ ~cfg.api_mode_fail_open_mcp
    /\ last.frame[1].pre = AllowNoReasons
    /\ last.frame[1].post = AllowNoReasons
    /\ last.outcome = "return"

\* the session's default headers are those ensure_session gave it
DefaultHeadersKept ==
    _session # None => _session[1].headers = ClientSession(_session[1].id).headers

\* a request sent without custom headers carries the session's defaults and its own
\* request id, nothing else
OwnHeadersOnly ==
    RequestSent /\ input.kind = "AsyncRequestHandler.request"
        /\ input.data.headers = EmptyDict =>
        DOMAIN output[1].outcome.sent[1].headers
            = DOMAIN ClientSession(1).headers \cup {REQUEST_ID_HEADER}

\* C40: the headers given to one AsyncRequestHandler.request call (custom headers and
\* that call's request id) apply to that request only: the session's default headers
\* are the same after the call as before it, and a later request on the same handler
\* that passes no custom header does not carry those of an earlier call.
C40_HeadersPerRequest ==
    DefaultHeadersKept /\ OwnHeadersOnly

\* a request made without custom headers on a handler that has sent a request with a
\* custom header before
C40_Witness ==
    /\ RequestSent
    /\ input.kind = "AsyncRequestHandler.request"
    /\ input.data.headers = EmptyDict
    /\ "X-Custom-Header" \in DOMAIN output[1].outcome.sent[1].headers

====
